---- MODULE Spec2Model ----
(***************************************************************************)
(* Session / mode state machine of the WebBotTele backend.                 *)
(*                                                                         *)
(* The components are independent of each other in the source (they share  *)
(* nothing but the wall clock), so each one is explored by a specification *)
(* of its own over the same variables:                                     *)
(*   SpecMode     ModeManager + FeatureModeHandler (mode isolation design) *)
(*   SpecGeotags  GeotagsService                                           *)
(*   SpecOcr      OcrService                                               *)
(*   SpecLocation LocationService (two-point measurement)                  *)
(*   SpecLocationAnyInput  the same, fed with out-of-range coordinates     *)
(*   SpecKml      KmlService                                               *)
(*   SpecWorkflows  location and KML handlers of two users, interleaved    *)
(*   SpecArchive  ArchiveService                                           *)
(*   SpecRoute    LocationService.calculateRoute on given points           *)
(*   SpecWorkbook WorkbookService (sheets and the photo queue)             *)
(* Time is counted in minutes; Date.now() is the variable now.             *)
(***************************************************************************)
EXTENDS Integers, Sequences, FiniteSets, Bags, TLC

VARIABLES
    now,          \* Date.now(), in minutes
    lastCall,     \* history: the operation executed by the last step and its reply
    effects,      \* history: the ordered side effects of the last ModeManager operation
    userModes,    \* ModeManager.userModes : Map<userId, UserModeState>
    userStates,   \* FeatureModeHandler.userStates, one Map per handler instance (mode)
    lastSet,      \* history: the mode most recently set for each user
    geoStates,    \* GeotagsService.userStates : Map<telegramId, UserGeotagsState>
    geoEntered,   \* history: the users who entered geotags mode (handleGeotagsCommand)
    geoTouched,   \* history: when each user's last geotags event was accepted
    ocrStates,    \* OcrService.userStates : Map<telegramId, reference to a UserOcrState>
    ocrObjs,      \* the UserOcrState objects of each user, by reference
    ocrCalls,     \* per user, the state references held by processImage calls
                  \* that are awaiting performOcr
    locStates,    \* LocationService.userMeasurementStates : Map<telegramId, reference>
    locObjs,      \* the UserMeasurementState objects of each user, by reference
    locCalls,     \* per user, the bag of processLocationForMeasurement calls that
                  \* are awaiting getAddressFromCoordinates: [state, loc]
    locArrivals,  \* history: per user, the calls in flight in their arrival order
    kmlData,      \* KmlService.userKmlData : Map<telegramId, UserKmlData>
    kmlNextNames, \* KmlService.nextPointNames : Map<telegramId, string>
    archStates,   \* ArchiveService.userStates : Map<telegramId, reference>
    archObjs,     \* the UserArchiveState objects of each user, by reference
    archCalls,    \* per user, the bag of createZipFile / extractFiles calls that are
                  \* awaiting their timer: [state, kind]
    archStats,    \* ArchiveService.userStats : Map<telegramId, UsageStats>
    wbStates,     \* WorkbookService.userWorkbookStates : Map<telegramId, reference>
    wbObjs,       \* the UserWorkbookState objects of each user, by reference
    wbLoops,      \* per user, the processPhotoQueue calls that are awaiting sleep:
                  \* [state, task], task being the one shifted off the queue
    wbFolders,    \* per user, the sheet folders that exist under workbook_media
    wbAccepted,   \* history: per user, the number of photos put on a queue
    wbDone,       \* history: per user, the photos given to processPhotoTask, in
                  \* the order of their processing, and what became of each
    route         \* a call of LocationService.calculateRoute: arguments, locals, result

modeVars == <<userModes, userStates, lastSet, effects>>
geoVars == <<geoStates, geoEntered, geoTouched>>
ocrVars == <<ocrStates, ocrObjs, ocrCalls>>
locVars == <<locStates, locObjs, locCalls, locArrivals>>
kmlVars == <<kmlData, kmlNextNames>>
archVars == <<archStates, archObjs, archCalls, archStats>>
wbVars == <<wbStates, wbObjs, wbLoops, wbFolders, wbAccepted, wbDone>>
routeVars == <<route>>
vars == <<now, lastCall, modeVars, geoVars, ocrVars, locVars, kmlVars, archVars, wbVars, routeVars>>

(***************************************************************************)
(* Bounds and program constants                                            *)
(***************************************************************************)
Users == {"u1", "u2"}

\* The clock advances in steps of TickStep minutes up to MaxTime where the
\* 30-minute session timeout is explored, and in steps of StateTickStep minutes up
\* to StateMaxTime where the 10-minute feature-state timeouts are.
MaxTime == 45
TickStep == 15
StateMaxTime == 20
StateTickStep == 5

\* Each user has at most MaxObjs state objects alive at a time (the one in the Map
\* and those still held by handlers in flight); imagesProcessed counts to MaxImages.
MaxObjs == 2
MaxImages == 2
\* At most MaxCalls processLocationForMeasurement calls of a user await at a time.
MaxCalls == 2
\* The users whose location handlers are interleaved in SpecLocation.  Handlers of
\* different users share no state object, and the states of one user with calls
\* in flight are many, so the interleavings are explored for one user.
LocationUsers == {"u1"}

\* A user's KML data holds at most MaxPlacemarks placemarks and MaxLines saved
\* lines, and a line at most MaxLinePoints points.
MaxPlacemarks == 2
MaxLines == 1
MaxLinePoints == 2
\* The users whose KML handlers are explored in SpecKml.
KmlUsers == {"u1"}

\* An archive state queues at most MaxFiles files and extracted directories, a
\* user has at most MaxJobs ZIP creations or extractions in flight, and each usage
\* counter counts to MaxCount.
MaxFiles == 2
MaxJobs == 2
MaxCount == 2
\* The users whose archive handlers are explored in SpecArchive.
ArchiveUsers == {"u1"}

\* A user sends at most MaxPhotos photos to the workbook.
MaxPhotos == 3
\* The users whose workbook handlers are explored in SpecWorkbook.
WorkbookUsers == {"u1"}
SheetNames == {"sheet1"}

\* An optional field that is not set
Undefined == "undefined"
PhotoIds == {"p1", "p2"}
Locations == {"l1", "l2"}
\* The coordinates sent as l1 and l2, and a location message whose latitude is
\* not one of a point on the globe.
OutOfRange == "l_out"
Latitude(l) == CASE l = "l1" -> -7 [] l = "l2" -> 45 [] l = OutOfRange -> 91
Longitude(l) == CASE l = "l1" -> 112 [] l = "l2" -> -122 [] l = OutOfRange -> 0

\* BotMode = BOT_MODES[...] | null; two of the feature modes are explored.
Null == "null"
FeatureModes == {"workbook", "location"}
BotMode == FeatureModes \cup {Null}

\* cleanupInactiveSessions(timeoutMs = 30 * 60 * 1000)
SESSION_TIMEOUT == 30

(***************************************************************************)
(* JavaScript Map as a function whose domain is the set of present keys    *)
(***************************************************************************)
EmptyMap == [k \in {} |-> 0]
MapHas(m, k) == k \in DOMAIN m
MapSet(m, k, v) == [x \in (DOMAIN m) \cup {k} |-> IF x = k THEN v ELSE m[x]]
MapDelete(m, k) == [x \in (DOMAIN m) \ {k} |-> m[x]]

Call(op, user, arg, reply) == [op |-> op, user |-> user, arg |-> arg, reply |-> reply]
Effect(op, user, mode, prev) == [op |-> op, user |-> user, mode |-> mode, prev |-> prev]

(***************************************************************************)
(* ModeManager                                                             *)
(* The operators work on a record w = [userModes, userStates, effects] and *)
(* return it as the method leaves it; effects lists what the method did,   *)
(* in the order of its statements.                                         *)
(***************************************************************************)
World == [userModes |-> userModes, userStates |-> userStates, effects |-> <<>>]

\* FeatureModeHandler.cleanupUserState: this.userStates.delete(userId)
cleanupUserState(w, userId, mode) ==
    [w EXCEPT !.userStates[mode] = MapDelete(@, userId)]

\* ModeManager.cleanupModeState: emit('modeCleanup', {userId, mode}); the listener
\* of the handler whose MODE_NAME is mode runs synchronously.
cleanupModeState(w, userId, mode) ==
    LET w1 == [w EXCEPT !.effects =
                   Append(@, Effect("cleanup", userId, mode, "-"))]
    IN IF mode \in FeatureModes THEN cleanupUserState(w1, userId, mode) ELSE w1

\* A plausible bug: currentMode and previousMode are stored the wrong way round.
recordMode_swapped(w, userId, mode, previousMode) ==
    [w EXCEPT !.userModes = MapSet(@, userId,
                  [currentMode |-> previousMode, previousMode |-> mode,
                   modeStartTime |-> now, lastActivity |-> now]),
              !.effects = Append(@, Effect("set", userId, mode, previousMode))]

\* The statement this.userModes.set(userId, {...}) of setUserMode.
recordMode(w, userId, mode, previousMode) ==
    [w EXCEPT !.userModes = MapSet(@, userId,
                  [currentMode |-> mode, previousMode |-> previousMode,
                   modeStartTime |-> now, lastActivity |-> now]),
              !.effects = Append(@, Effect("set", userId, mode, previousMode))]

\* ModeManager.getUserMode: state?.currentMode || null
getUserModeIn(um, userId) ==
    IF MapHas(um, userId) THEN um[userId].currentMode ELSE Null

getUserMode(userId) == getUserModeIn(userModes, userId)

\* ModeManager.isUserInMode
isUserInMode(userId, mode) == getUserMode(userId) = mode

\* A plausible bug: the new mode is recorded before the old mode is cleaned up.
setUserMode_recordFirst(w, userId, mode) ==
    LET previousMode == getUserModeIn(w.userModes, userId)
        w1 == recordMode(w, userId, mode, previousMode)
    IN IF previousMode # Null /\ previousMode # mode
       THEN cleanupModeState(w1, userId, previousMode)
       ELSE w1

\* ModeManager.setUserMode
setUserMode(w, userId, mode) ==
    LET previousMode == getUserModeIn(w.userModes, userId)
        w1 == IF previousMode # Null /\ previousMode # mode
              THEN cleanupModeState(w, userId, previousMode)
              ELSE w
    IN recordMode(w1, userId, mode, previousMode)

\* ModeManager.updateLastActivity
updateLastActivity(w, userId) ==
    IF MapHas(w.userModes, userId)
    THEN [w EXCEPT !.userModes[userId].lastActivity = now]
    ELSE w

\* A plausible bug: a session idle for exactly the timeout is swept as well.
sessionExpired_inclusive(um, userId, timeoutMs) ==
    MapHas(um, userId) /\ now - um[userId].lastActivity >= timeoutMs

\* The test of cleanupInactiveSessions: now - state.lastActivity > timeoutMs
sessionExpired(um, userId, timeoutMs) ==
    MapHas(um, userId) /\ now - um[userId].lastActivity > timeoutMs

\* ModeManager.cleanupInactiveSessions: the loop over userModes.entries(); todo is
\* the set of keys not yet visited.
RECURSIVE sweepSessions(_, _, _)
sweepSessions(w, todo, timeoutMs) ==
    IF todo = {} THEN w
    ELSE LET userId == CHOOSE u \in todo : TRUE
             w1 == IF sessionExpired(w.userModes, userId, timeoutMs)
                   THEN setUserMode(w, userId, Null)
                   ELSE w
         IN sweepSessions(w1, todo \ {userId}, timeoutMs)

cleanupInactiveSessions(w, timeoutMs) ==
    sweepSessions(w, DOMAIN w.userModes, timeoutMs)

\* FeatureModeHandler.initializeUserState
initializeUserState(w, userId, mode) ==
    [w EXCEPT !.userStates[mode] = MapSet(@, userId, [startTime |-> now])]

\* FeatureModeHandler.enterMode, from the return of validateUserAccess on
enterMode(w, userId, mode, hasAccess) ==
    IF ~hasAccess THEN w
    ELSE initializeUserState(setUserMode(w, userId, mode), userId, mode)

\* A plausible bug: the command is routed without the mode check.
handleCommand_noModeCheck(w, userId, mode) ==
    [updateLastActivity(w, userId) EXCEPT !.effects =
        Append(@, Effect("route", userId, mode, "-"))]

\* FeatureModeHandler.handleCommand of the handler whose MODE_NAME is mode
handleCommand(w, userId, mode) ==
    IF getUserModeIn(w.userModes, userId) # mode THEN w
    ELSE [updateLastActivity(w, userId) EXCEPT !.effects =
              Append(@, Effect("route", userId, mode, "-"))]

handleCommandReply(userId, mode) ==
    IF ~isUserInMode(userId, mode) THEN "mode_mismatch" ELSE "handled"

(***************************************************************************)
(* GeotagsService                                                          *)
(* A state is [pendingPhotoFileId, alwaysTagLocation,                      *)
(* isWaitingForStickyLocation, timestamp]; customDateTime is only handed   *)
(* to the photo processing and decides nothing, it is left out.  The       *)
(* handlers change the state before their only await                       *)
(* (processPhotoWithGeotag), so each runs as one step.                     *)
(***************************************************************************)
\* private readonly STATE_TIMEOUT = 10 * 60 * 1000
GEOTAGS_STATE_TIMEOUT == 10

\* GeotagsService.initUserState
Geotags_initUserState(gs, telegramId) ==
    MapSet(gs, telegramId,
           [pendingPhotoFileId |-> Undefined, alwaysTagLocation |-> Undefined,
            isWaitingForStickyLocation |-> FALSE, timestamp |-> now])

\* GeotagsService.getUserState: the Map after the lookup
Geotags_getUserState(gs, telegramId) ==
    IF MapHas(gs, telegramId) THEN gs ELSE Geotags_initUserState(gs, telegramId)

\* GeotagsService.handleGeotagsCommand, from the return of validateUser on
Geotags_handleGeotagsCommand(gs, telegramId, userFound) ==
    IF userFound THEN Geotags_initUserState(gs, telegramId) ELSE gs

\* GeotagsService.toggleAlwaysTag
Geotags_toggleAlwaysTag(gs, telegramId) ==
    LET g == Geotags_getUserState(gs, telegramId)
    IN IF g[telegramId].alwaysTagLocation # Undefined
       THEN [g EXCEPT ![telegramId].alwaysTagLocation = Undefined,
                      ![telegramId].isWaitingForStickyLocation = FALSE]
       ELSE [g EXCEPT ![telegramId].isWaitingForStickyLocation = TRUE,
                      ![telegramId].alwaysTagLocation = Undefined]

Geotags_toggleAlwaysTagReply(gs, telegramId) ==
    IF Geotags_getUserState(gs, telegramId)[telegramId].alwaysTagLocation # Undefined
    THEN "alwaystag_off" ELSE "alwaystag_on_send_location"

\* GeotagsService.handlePhoto
Geotags_handlePhoto(gs, telegramId, photoFileId) ==
    LET g == Geotags_getUserState(gs, telegramId)
        state == g[telegramId]
    IN IF state.alwaysTagLocation # Undefined /\ ~state.isWaitingForStickyLocation
       THEN g
       ELSE [g EXCEPT ![telegramId].pendingPhotoFileId = photoFileId]

Geotags_handlePhotoReply(gs, telegramId) ==
    LET state == Geotags_getUserState(gs, telegramId)[telegramId]
    IN IF state.alwaysTagLocation # Undefined /\ ~state.isWaitingForStickyLocation
       THEN "photo_processed_alwaystag"
       ELSE IF state.isWaitingForStickyLocation
            THEN "photo_received_waiting_sticky"
            ELSE "photo_received_send_location"

\* handleLocation that leaves the pending photo in its slot in standard mode.
Geotags_handleLocation_keepsPending(gs, telegramId, location) ==
    LET g == Geotags_getUserState(gs, telegramId)
        state == g[telegramId]
    IN IF state.isWaitingForStickyLocation
       THEN [g EXCEPT ![telegramId].alwaysTagLocation = location,
                      ![telegramId].isWaitingForStickyLocation = FALSE,
                      ![telegramId].pendingPhotoFileId = Undefined]
       ELSE IF state.alwaysTagLocation # Undefined
            THEN [g EXCEPT ![telegramId].alwaysTagLocation = location,
                           ![telegramId].pendingPhotoFileId = Undefined]
            ELSE g

\* handleLocation that sets the sticky location without handling the pending photo.
Geotags_handleLocation_stickyKeepsPending(gs, telegramId, location) ==
    LET g == Geotags_getUserState(gs, telegramId)
        state == g[telegramId]
    IN IF state.isWaitingForStickyLocation
       THEN [g EXCEPT ![telegramId].alwaysTagLocation = location,
                      ![telegramId].isWaitingForStickyLocation = FALSE]
       ELSE IF state.alwaysTagLocation # Undefined
            THEN [g EXCEPT ![telegramId].alwaysTagLocation = location,
                           ![telegramId].pendingPhotoFileId = Undefined]
            ELSE [g EXCEPT ![telegramId].pendingPhotoFileId = Undefined]

\* GeotagsService.handleLocation
Geotags_handleLocation(gs, telegramId, location) ==
    LET g == Geotags_getUserState(gs, telegramId)
        state == g[telegramId]
    IN IF state.isWaitingForStickyLocation
       THEN [g EXCEPT ![telegramId].alwaysTagLocation = location,
                      ![telegramId].isWaitingForStickyLocation = FALSE,
                      ![telegramId].pendingPhotoFileId = Undefined]
       ELSE IF state.alwaysTagLocation # Undefined
            THEN [g EXCEPT ![telegramId].alwaysTagLocation = location,
                           ![telegramId].pendingPhotoFileId = Undefined]
            ELSE [g EXCEPT ![telegramId].pendingPhotoFileId = Undefined]

Geotags_handleLocationReply(gs, telegramId) ==
    LET state == Geotags_getUserState(gs, telegramId)[telegramId]
        pending == state.pendingPhotoFileId # Undefined
    IN IF state.isWaitingForStickyLocation
       THEN IF pending THEN "sticky_set_photo_processed" ELSE "sticky_set"
       ELSE IF state.alwaysTagLocation # Undefined
            THEN IF pending THEN "sticky_updated_photo_processed" ELSE "sticky_updated"
            ELSE IF pending THEN "photo_processed" ELSE "send_photo_first"

\* The test of cleanupExpiredStates: now - state.timestamp > this.STATE_TIMEOUT
Geotags_expired(gs, telegramId) ==
    now - gs[telegramId].timestamp > GEOTAGS_STATE_TIMEOUT

\* GeotagsService.cleanupExpiredStates
Geotags_cleanupExpiredStates(gs) ==
    [u \in {x \in DOMAIN gs : ~Geotags_expired(gs, x)} |-> gs[u]]

(***************************************************************************)
(* State objects held by reference                                         *)
(* A handler that awaits keeps the reference it read before the await, and *)
(* writes through it afterwards, whatever the Map holds by then.  objs is  *)
(* a Map from references to objects; an object that neither the Map nor a  *)
(* handler in flight refers to is garbage and dropped.                     *)
(***************************************************************************)
Refs == 1..MaxObjs

CanAlloc(objs) == DOMAIN objs # Refs

\* new object: the least reference not in use
NewRef(objs) == CHOOSE r \in Refs \ DOMAIN objs : \A q \in Refs \ DOMAIN objs : r <= q

Collect(objs, live) == [r \in (DOMAIN objs) \cap live |-> objs[r]]

(***************************************************************************)
(* OcrService                                                              *)
(* The operators work on o = [states, objs, calls] of one user: states is  *)
(* the user's entry of the Map (a set holding at most one reference).      *)
(***************************************************************************)
\* private readonly STATE_TIMEOUT = 10 * 60 * 1000
OCR_STATE_TIMEOUT == 10

OcrOf(u) ==
    [ref |-> IF MapHas(ocrStates, u) THEN ocrStates[u] ELSE 0,
     objs |-> ocrObjs[u], calls |-> ocrCalls[u]]

\* OcrService.initUserState
Ocr_initUserState(o) ==
    LET kept == Collect(o.objs, o.calls)
        r == NewRef(kept)
    IN [o EXCEPT !.ref = r,
                 !.objs = MapSet(kept, r, [processingImage |-> FALSE,
                                        imagesProcessed |-> 0,
                                        timestamp |-> now])]

\* OcrService.getUserState
Ocr_getUserState(o) == IF o.ref # 0 THEN o ELSE Ocr_initUserState(o)

\* OcrService.handleOcrCommand, from the return of validateUser on
Ocr_handleOcrCommand(o, userFound) ==
    IF userFound THEN Ocr_initUserState(o) ELSE o

\* OcrService.processImage up to await this.performOcr(fileName)
Ocr_processImage_begin(o) ==
    LET o1 == Ocr_getUserState(o)
        state == o1.ref
    IN IF o1.objs[state].processingImage
       THEN o1
       ELSE [o1 EXCEPT !.objs[state].processingImage = TRUE,
                       !.calls = @ \cup {state}]

Ocr_processImage_beginReply(o) ==
    LET o1 == Ocr_getUserState(o)
    IN IF o1.objs[o1.ref].processingImage THEN "please_wait" ELSE "-"

\* OcrService.processImage after the await, state being the reference read before
\* it (performOcr catches its own errors, so the catch branch is never taken)
Ocr_processImage_end(o, state) ==
    [o EXCEPT !.objs[state].imagesProcessed = @ + 1,
              !.objs[state].processingImage = FALSE,
              !.calls = @ \ {state}]

\* The test of cleanupExpiredStates: now - state.timestamp > this.STATE_TIMEOUT
Ocr_expired(o) == o.ref # 0 /\ now - o.objs[o.ref].timestamp > OCR_STATE_TIMEOUT

\* OcrService.cleanupExpiredStates, for one entry of the Map
Ocr_cleanupExpiredStates(o) ==
    IF Ocr_expired(o) THEN [o EXCEPT !.ref = 0] ELSE o

(***************************************************************************)
(* LocationService                                                         *)
(* The operators work on m = [ref, objs, calls] of one user, as above.     *)
(***************************************************************************)
\* "Sesi pengukuran akan otomatis berakhir setelah 10 menit jika tidak diselesaikan."
LOCATION_TIMEOUT == 10

TransportModes == {"car", "motorcycle", "foot"}

\* What getAddressFromCoordinates does: an address, null, or a rethrown error
GeocoderResults == {"address", "null", "throw"}

\* firstPoint / secondPoint not set
NoPoint == [loc |-> Undefined, address |-> Undefined]

LocOf(u) ==
    [ref |-> IF MapHas(locStates, u) THEN locStates[u] ELSE 0,
     objs |-> locObjs[u], calls |-> locCalls[u]]

HeldRefs(calls) == {c.state : c \in BagToSet(calls)}

\* LocationService.initUserMeasurementState
initUserMeasurementState(m) ==
    LET kept == Collect(m.objs, HeldRefs(m.calls))
        r == NewRef(kept)
    IN [m EXCEPT !.ref = r,
                 !.objs = MapSet(kept, r, [isActive |-> FALSE,
                                           firstPoint |-> NoPoint,
                                           secondPoint |-> NoPoint,
                                           timestamp |-> now,
                                           transportMode |-> Undefined])]

\* LocationService.handleLocationCommand
handleLocationCommand(m) == initUserMeasurementState(m)

\* LocationService.startMeasurement
startMeasurement(m, transportMode) ==
    LET m1 == initUserMeasurementState(m)
    IN [m1 EXCEPT !.objs[m1.ref].isActive = TRUE,
                  !.objs[m1.ref].transportMode = transportMode]

\* LocationService.cancelMeasurement
MeasurementActive(m) == m.ref # 0 /\ m.objs[m.ref].isActive

cancelMeasurement(m) ==
    IF MeasurementActive(m) THEN initUserMeasurementState(m) ELSE m

cancelMeasurementReply(m) ==
    IF MeasurementActive(m) THEN "cancelled" ELSE "no_active_measurement"

\* The steps of the measurement workflow, as processLocationForMeasurement tells
\* them apart: it takes a point as the first one when the state is active and
\* has no firstPoint, as the second one when it is active and has a firstPoint
\* but no secondPoint.
AwaitingFirstPoint(m) ==
    MeasurementActive(m) /\ m.objs[m.ref].firstPoint = NoPoint

AwaitingSecondPoint(m) ==
    /\ MeasurementActive(m)
    /\ m.objs[m.ref].firstPoint # NoPoint
    /\ m.objs[m.ref].secondPoint = NoPoint

\* LocationService.processLocationForMeasurement up to
\* await this.getAddressFromCoordinates(latitude, longitude)
processLocation_begin(m, loc) ==
    IF ~MeasurementActive(m) THEN m
    ELSE [m EXCEPT !.calls = @ (+) SetToBag({[state |-> m.ref, loc |-> loc]})]

processLocation_beginReply(m) == IF ~MeasurementActive(m) THEN "null" ELSE "-"

\* addressData?.address || 'Lokasi tidak diketahui'
AddressOf(geo) == IF geo = "address" THEN "address" ELSE "Lokasi tidak diketahui"

\* LocationService.processLocationForMeasurement after the await; call.state is the
\* reference read before it
processLocation_end(m, call, geo) ==
    LET m0 == [m EXCEPT !.calls = @ (-) SetToBag({call})]
        state == call.state
        point == [loc |-> call.loc, address |-> AddressOf(geo)]
    IN IF geo = "throw" THEN m0
       ELSE IF m0.objs[state].firstPoint = NoPoint
       THEN [m0 EXCEPT !.objs[state].firstPoint = point,
                       !.objs[state].timestamp = now]
       ELSE IF m0.objs[state].secondPoint = NoPoint
       THEN initUserMeasurementState(
                [m0 EXCEPT !.objs[state].secondPoint = point])
       ELSE m0

processLocation_endReply(m, call, geo) ==
    LET o == m.objs[call.state]
    IN IF geo = "throw" THEN "throw"
       ELSE IF o.firstPoint = NoPoint THEN "first_point"
       ELSE IF o.secondPoint = NoPoint THEN "measurement_result"
       ELSE "undefined"

(***************************************************************************)
(* Arithmetic of the `number` values of LocationService                    *)
(* TLC's integers have 32 bits, so a non-negative magnitude is a sequence  *)
(* of limbs in base Base, lowest limb first and without leading zero limb, *)
(* and a number is a sign and a magnitude counted in units of              *)
(* Base^(-FracLimbs) = 10^(-16).  Products and quotients are truncated to  *)
(* that unit, where a double rounds to 53 bits.  The operations are        *)
(* functions, so that their arguments are values.                          *)
(***************************************************************************)
Base == 10000
FracLimbs == 4

Magnitudes == Seq(Nat)
Numbers == [neg : BOOLEAN, mag : Magnitudes]

BigNorm[a \in Magnitudes] ==
    IF a # <<>> /\ a[Len(a)] = 0 THEN BigNorm[SubSeq(a, 1, Len(a) - 1)] ELSE a

BigFromInt[n \in Nat] == IF n = 0 THEN <<>> ELSE <<n % Base>> \o BigFromInt[n \div Base]

BigToInt[a \in Magnitudes] == IF a = <<>> THEN 0 ELSE a[1] + Base * BigToInt[Tail(a)]

Limb[a \in Magnitudes, i \in Nat] == IF i <= Len(a) THEN a[i] ELSE 0

AddFrom[a \in Magnitudes, b \in Magnitudes, i \in Nat, carry \in Nat] ==
    IF i > Len(a) /\ i > Len(b) THEN BigFromInt[carry]
    ELSE <<(Limb[a, i] + Limb[b, i] + carry) % Base>>
             \o AddFrom[a, b, i + 1, (Limb[a, i] + Limb[b, i] + carry) \div Base]

BigAdd[a \in Magnitudes, b \in Magnitudes] == AddFrom[a, b, 1, 0]

SubFrom[a \in Magnitudes, b \in Magnitudes, i \in Nat, borrow \in Nat] ==
    IF i > Len(a) THEN <<>>
    ELSE IF Limb[a, i] - Limb[b, i] - borrow < 0
    THEN <<Limb[a, i] - Limb[b, i] - borrow + Base>> \o SubFrom[a, b, i + 1, 1]
    ELSE <<Limb[a, i] - Limb[b, i] - borrow>> \o SubFrom[a, b, i + 1, 0]

\* a - b for a >= b
BigSub[a \in Magnitudes, b \in Magnitudes] == BigNorm[SubFrom[a, b, 1, 0]]

CmpFrom[a \in Magnitudes, b \in Magnitudes, i \in Nat] ==
    IF i = 0 THEN 0
    ELSE IF a[i] < b[i] THEN -1
    ELSE IF a[i] > b[i] THEN 1
    ELSE CmpFrom[a, b, i - 1]

\* -1, 0 or 1 as a is less than, equal to or greater than b
BigCmp[a \in Magnitudes, b \in Magnitudes] ==
    IF Len(a) < Len(b) THEN -1
    ELSE IF Len(a) > Len(b) THEN 1
    ELSE CmpFrom[a, b, Len(a)]

MulSmallFrom[a \in Magnitudes, k \in Nat, i \in Nat, carry \in Nat] ==
    IF i > Len(a) THEN BigFromInt[carry]
    ELSE <<(a[i] * k + carry) % Base>>
             \o MulSmallFrom[a, k, i + 1, (a[i] * k + carry) \div Base]

\* a * k for 0 <= k < Base
BigMulSmall[a \in Magnitudes, k \in Nat] == IF k = 0 THEN <<>> ELSE MulSmallFrom[a, k, 1, 0]

Zeros[n \in Nat] == IF n = 0 THEN <<>> ELSE <<0>> \o Zeros[n - 1]

ShiftLeft[a \in Magnitudes, n \in Nat] == IF a = <<>> THEN <<>> ELSE Zeros[n] \o a
ShiftRight[a \in Magnitudes, n \in Nat] ==
    IF Len(a) <= n THEN <<>> ELSE SubSeq(a, n + 1, Len(a))

MulFrom[a \in Magnitudes, b \in Magnitudes, i \in Nat] ==
    IF i > Len(b) THEN <<>>
    ELSE BigAdd[ShiftLeft[BigMulSmall[a, b[i]], i - 1], MulFrom[a, b, i + 1]]

BigMul[a \in Magnitudes, b \in Magnitudes] == MulFrom[a, b, 1]

DivSmallFrom[a \in Magnitudes, k \in Nat, i \in Nat, rem \in Nat] ==
    IF i = 0 THEN <<>>
    ELSE DivSmallFrom[a, k, i - 1, (rem * Base + a[i]) % k] \o <<(rem * Base + a[i]) \div k>>

\* floor(a / k) for 0 < k < 200000
BigDivSmall[a \in Magnitudes, k \in Nat] == BigNorm[DivSmallFrom[a, k, Len(a), 0]]

\* the largest d in lo..hi with b * d <= r
QuotDigit[r \in Magnitudes, b \in Magnitudes, lo \in Nat, hi \in Nat] ==
    IF lo = hi THEN lo
    ELSE IF BigCmp[BigMulSmall[b, (lo + hi + 1) \div 2], r] <= 0
    THEN QuotDigit[r, b, (lo + hi + 1) \div 2, hi]
    ELSE QuotDigit[r, b, lo, (lo + hi + 1) \div 2 - 1]

\* the quotient limbs i, i-1, .., 1 of a / b, rem being the remainder of the limbs above
DivStep[a \in Magnitudes, b \in Magnitudes, i \in Nat, cur \in Magnitudes, d \in Nat] ==
    (IF i = 1 THEN <<>>
     ELSE DivStep[a, b, i - 1,
                  BigNorm[<<a[i - 1]>> \o BigSub[cur, BigMulSmall[b, d]]],
                  QuotDigit[BigNorm[<<a[i - 1]>> \o BigSub[cur, BigMulSmall[b, d]]],
                            b, 0, Base - 1]])
        \o <<d>>

\* floor(a / b) for b > 0
BigDiv[a \in Magnitudes, b \in Magnitudes] ==
    IF a = <<>> THEN <<>>
    ELSE BigNorm[DivStep[a, b, Len(a), <<a[Len(a)]>>,
                         QuotDigit[<<a[Len(a)]>>, b, 0, Base - 1]]]

\* the largest d in lo..hi with (r + d * Base^(i-1))^2 <= n
SqrtDigit[n \in Magnitudes, r \in Magnitudes, i \in Nat, lo \in Nat, hi \in Nat] ==
    IF lo = hi THEN lo
    ELSE IF BigCmp[BigMul[BigAdd[r, ShiftLeft[BigFromInt[(lo + hi + 1) \div 2], i - 1]],
                          BigAdd[r, ShiftLeft[BigFromInt[(lo + hi + 1) \div 2], i - 1]]],
                   n] <= 0
    THEN SqrtDigit[n, r, i, (lo + hi + 1) \div 2, hi]
    ELSE SqrtDigit[n, r, i, lo, (lo + hi + 1) \div 2 - 1]

SqrtFrom[n \in Magnitudes, i \in Nat, r \in Magnitudes] ==
    IF i = 0 THEN r
    ELSE SqrtFrom[n, i - 1,
                  BigAdd[r, ShiftLeft[BigFromInt[SqrtDigit[n, r, i, 0, Base - 1]], i - 1]]]

\* floor(sqrt(n))
BigSqrt[n \in Magnitudes] == SqrtFrom[n, (Len(n) + 1) \div 2, <<>>]

Num[neg \in BOOLEAN, mag \in Magnitudes] == [neg |-> neg /\ mag # <<>>, mag |-> mag]
NumFromInt[n \in Int] == Num[n < 0, ShiftLeft[BigFromInt[IF n < 0 THEN -n ELSE n], FracLimbs]]
NumNeg[x \in Numbers] == Num[~x.neg, x.mag]
NumAdd[x \in Numbers, y \in Numbers] ==
    IF x.neg = y.neg THEN Num[x.neg, BigAdd[x.mag, y.mag]]
    ELSE IF BigCmp[x.mag, y.mag] >= 0 THEN Num[x.neg, BigSub[x.mag, y.mag]]
    ELSE Num[y.neg, BigSub[y.mag, x.mag]]
NumSub[x \in Numbers, y \in Numbers] == NumAdd[x, NumNeg[y]]
NumMul[x \in Numbers, y \in Numbers] ==
    Num[x.neg # y.neg, ShiftRight[BigMul[x.mag, y.mag], FracLimbs]]
NumDiv[x \in Numbers, y \in Numbers] ==
    Num[x.neg # y.neg, BigDiv[ShiftLeft[x.mag, FracLimbs], y.mag]]
\* x * k and x / k for an integer 0 < k < Base
NumMulInt[x \in Numbers, k \in Nat] == Num[x.neg, BigMulSmall[x.mag, k]]
NumDivInt[x \in Numbers, k \in Nat] == Num[x.neg, BigDivSmall[x.mag, k]]
NumLt[x \in Numbers, y \in Numbers] == NumSub[x, y].neg
NumSqrt[x \in Numbers] == Num[FALSE, BigSqrt[ShiftLeft[x.mag, FracLimbs]]]
\* Math.floor and Math.round of x >= 0, and x % k for an integer k
NumFloor[x \in Numbers] == BigToInt[ShiftRight[x.mag, FracLimbs]]
NumRound[x \in Numbers] == NumFloor[NumAdd[x, NumDivInt[NumFromInt[1], 2]]]
NumMod[x \in Numbers, k \in Nat] == NumSub[x, NumFromInt[k * (NumFloor[x] \div k)]]

\* Math.PI = 3.141592653589793
PI == Num[FALSE, ShiftRight[<<7930, 3589, 9265, 1415, 3>>, 4 - FracLimbs]]

\* Math.sin and Math.cos by their power series; term is the term of degree k
SeriesFrom[term \in Numbers, x2 \in Numbers, k \in Nat, acc \in Numbers] ==
    IF term.mag = <<>> THEN acc
    ELSE SeriesFrom[NumNeg[NumDivInt[NumMul[term, x2], (k + 1) * (k + 2)]],
                    x2, k + 2, NumAdd[acc, term]]

Sin[x \in Numbers] == SeriesFrom[x, NumMul[x, x], 1, NumFromInt[0]]
Cos[x \in Numbers] == SeriesFrom[NumFromInt[1], NumMul[x, x], 0, NumFromInt[0]]

\* arctan of 0 <= t <= 1: the angle is halved twice, then the power series
AtanFrom[power \in Numbers, t2 \in Numbers, k \in Nat, acc \in Numbers] ==
    IF power.mag = <<>> THEN acc
    ELSE AtanFrom[NumNeg[NumMul[power, t2]], t2, k + 2, NumAdd[acc, NumDivInt[power, k]]]

HalfAngle[t \in Numbers] ==
    NumDiv[t, NumAdd[NumFromInt[1], NumSqrt[NumAdd[NumFromInt[1], NumMul[t, t]]]]]

AtanSeries[h \in Numbers] == NumMulInt[AtanFrom[h, NumMul[h, h], 1, NumFromInt[0]], 4]

Atan[t \in Numbers] == AtanSeries[HalfAngle[HalfAngle[t]]]

\* the angle of the point (x, y) for x >= 0 and y >= 0
Angle[y \in Numbers, x \in Numbers] ==
    IF y.mag = <<>> THEN NumFromInt[0]
    ELSE IF BigCmp[y.mag, x.mag] <= 0 THEN Atan[NumDiv[y, x]]
    ELSE NumSub[NumDivInt[PI, 2], Atan[NumDiv[x, y]]]

\* Math.atan2
Atan2[y \in Numbers, x \in Numbers] ==
    Num[y.neg, (IF x.neg THEN NumSub[PI, Angle[Num[FALSE, y.mag], Num[FALSE, x.mag]]]
                ELSE Angle[Num[FALSE, y.mag], Num[FALSE, x.mag]]).mag]

(***************************************************************************)
(* LocationService: distance, duration and their texts                     *)
(* A GeoPoint is named; its coordinates are counted in 10^(-7) degree.     *)
(***************************************************************************)
GeoPoints == {"g1", "g2", "g3", "g4", "g5", "g6"}

\* g1 and g2 are the points of the measurement example; g3 and g5 lie 828 m and
\* 106 m north of g1, g4 and g6 on the other side of the globe.
LatitudeOf(g) ==
    CASE g = "g1" -> -72570560 [] g = "g2" -> -76382862 [] g = "g3" -> -72496060
      [] g = "g4" -> 450000000 [] g = "g5" -> -72561000 [] g = "g6" -> -337500000
LongitudeOf(g) ==
    CASE g = "g1" -> 1126480000 [] g = "g2" -> 1127372882 [] g = "g3" -> 1126480000
      [] g = "g4" -> -1220000000 [] g = "g5" -> 1126480000 [] g = "g6" -> -1800000000

\* the number n * 10^(-7)
Degrees[n \in Int] ==
    Num[n < 0, BigDivSmall[ShiftLeft[BigFromInt[IF n < 0 THEN -n ELSE n], FracLimbs - 1],
                           1000]]

\* LocationService.calculateDistance with atan2's arguments exchanged
calculateDistance_swappedAtan2(lat1, lon1, lat2, lon2) ==
    LET R == NumFromInt[6371000]
        phi1 == NumDivInt[NumMul[lat1, PI], 180]
        phi2 == NumDivInt[NumMul[lat2, PI], 180]
        dphi == NumDivInt[NumMul[NumSub[lat2, lat1], PI], 180]
        dlambda == NumDivInt[NumMul[NumSub[lon2, lon1], PI], 180]
        a == NumAdd[NumMul[Sin[NumDivInt[dphi, 2]], Sin[NumDivInt[dphi, 2]]],
                    NumMul[NumMul[NumMul[Cos[phi1], Cos[phi2]], Sin[NumDivInt[dlambda, 2]]],
                           Sin[NumDivInt[dlambda, 2]]]]
        c == NumMulInt[Atan2[NumSqrt[NumSub[NumFromInt[1], a]], NumSqrt[a]], 2]
    IN NumMul[R, c]

\* LocationService.calculateDistance with the sines of the whole differences
calculateDistance_wholeAngle(lat1, lon1, lat2, lon2) ==
    LET R == NumFromInt[6371000]
        phi1 == NumDivInt[NumMul[lat1, PI], 180]
        phi2 == NumDivInt[NumMul[lat2, PI], 180]
        dphi == NumDivInt[NumMul[NumSub[lat2, lat1], PI], 180]
        dlambda == NumDivInt[NumMul[NumSub[lon2, lon1], PI], 180]
        a == NumAdd[NumMul[Sin[dphi], Sin[dphi]],
                    NumMul[NumMul[NumMul[Cos[phi1], Cos[phi2]], Sin[dlambda]],
                           Sin[dlambda]]]
        c == NumMulInt[Atan2[NumSqrt[a], NumSqrt[NumSub[NumFromInt[1], a]]], 2]
    IN NumMul[R, c]

\* LocationService.calculateDistance with cos(phi1) twice
calculateDistance_firstLatitudeOnly(lat1, lon1, lat2, lon2) ==
    LET R == NumFromInt[6371000]
        phi1 == NumDivInt[NumMul[lat1, PI], 180]
        dphi == NumDivInt[NumMul[NumSub[lat2, lat1], PI], 180]
        dlambda == NumDivInt[NumMul[NumSub[lon2, lon1], PI], 180]
        a == NumAdd[NumMul[Sin[NumDivInt[dphi, 2]], Sin[NumDivInt[dphi, 2]]],
                    NumMul[NumMul[NumMul[Cos[phi1], Cos[phi1]], Sin[NumDivInt[dlambda, 2]]],
                           Sin[NumDivInt[dlambda, 2]]]]
        c == NumMulInt[Atan2[NumSqrt[a], NumSqrt[NumSub[NumFromInt[1], a]]], 2]
    IN NumMul[R, c]

\* LocationService.calculateDistance
calculateDistance(lat1, lon1, lat2, lon2) ==
    LET R == NumFromInt[6371000]
        phi1 == NumDivInt[NumMul[lat1, PI], 180]
        phi2 == NumDivInt[NumMul[lat2, PI], 180]
        dphi == NumDivInt[NumMul[NumSub[lat2, lat1], PI], 180]
        dlambda == NumDivInt[NumMul[NumSub[lon2, lon1], PI], 180]
        a == NumAdd[NumMul[Sin[NumDivInt[dphi, 2]], Sin[NumDivInt[dphi, 2]]],
                    NumMul[NumMul[NumMul[Cos[phi1], Cos[phi2]], Sin[NumDivInt[dlambda, 2]]],
                           Sin[NumDivInt[dlambda, 2]]]]
        c == NumMulInt[Atan2[NumSqrt[a], NumSqrt[NumSub[NumFromInt[1], a]]], 2]
    IN NumMul[R, c]

\* LocationService.formatDuration; the text is the sequence of its <<number, unit>>
formatDuration(seconds) ==
    IF NumLt[seconds, NumFromInt[60]]
    THEN <<<<NumRound[seconds], "detik">>>>
    ELSE IF NumLt[seconds, NumFromInt[3600]]
    THEN <<<<NumFloor[NumDivInt[seconds, 60]], "menit">>>>
    ELSE LET hours == NumFloor[NumDivInt[seconds, 3600]]
             minutes == NumFloor[NumDivInt[NumMod[seconds, 3600], 60]]
         IN <<<<hours, "jam">>, <<minutes, "menit">>>>

\* `${Math.round(distance)} meter` or `${(distance / 1000).toFixed(2)} kilometer`
formatDistance(distance) ==
    IF NumLt[distance, NumFromInt[1000]]
    THEN [value |-> NumRound[distance], decimals |-> <<>>, unit |-> "meter"]
    ELSE LET n == NumRound[NumMulInt[NumDivInt[distance, 1000], 100]]
         IN [value |-> n \div 100, decimals |-> <<(n \div 10) % 10, n % 10>>,
             unit |-> "kilometer"]

\* the divisor of the distance in calculateRoute's switch
SpeedOf(transportMode) ==
    CASE transportMode = "car" -> 50
      [] transportMode = "motorcycle" -> 40
      [] transportMode = "foot" -> 5

\* calculateRoute walking at 4 km/h
estimateTime_slowWalk(distance, transportMode) ==
    NumMul[NumDivInt[distance, IF transportMode = "foot" THEN 4 ELSE SpeedOf(transportMode)],
           NumDivInt[NumFromInt[36], 10]]

\* distance / speed * 3.6
estimateTime(distance, transportMode) ==
    NumMul[NumDivInt[distance, SpeedOf(transportMode)], NumDivInt[NumFromInt[36], 10]]

\* LocationService.calculateRoute: its arguments, its locals distance and
\* estimatedTime, and the distance and duration texts of its result
calculateRoute(firstPoint, secondPoint, transportMode) ==
    LET distance == calculateDistance(Degrees[LatitudeOf(firstPoint)],
                                      Degrees[LongitudeOf(firstPoint)],
                                      Degrees[LatitudeOf(secondPoint)],
                                      Degrees[LongitudeOf(secondPoint)])
        estimatedTime == estimateTime(distance, transportMode)
    IN [firstPoint |-> firstPoint, secondPoint |-> secondPoint,
        transportMode |-> transportMode, returned |-> TRUE,
        distance |-> distance, estimatedTime |-> estimatedTime,
        formattedDistance |-> formatDistance(distance),
        formattedDuration |-> formatDuration(estimatedTime)]

\* a call of calculateRoute that has not run yet
RouteCall(firstPoint, secondPoint, transportMode) ==
    [firstPoint |-> firstPoint, secondPoint |-> secondPoint,
     transportMode |-> transportMode, returned |-> FALSE,
     distance |-> NumFromInt[0], estimatedTime |-> NumFromInt[0],
     formattedDistance |-> [value |-> 0, decimals |-> <<>>, unit |-> Undefined],
     formattedDuration |-> <<>>]

(***************************************************************************)
(* KmlService                                                              *)
(* The operators work on k = [data, next], the two Maps of the service.    *)
(* A placemark is [loc, name] and a saved line [name, coordinates]; their  *)
(* timestamp fields are written and never read, they are left out.  No     *)
(* handler awaits between reading and writing the data.                    *)
(***************************************************************************)
KmlOf == [data |-> kmlData, next |-> kmlNextNames]

\* activeLine: null
NoLine == [name |-> Null, points |-> <<>>]

\* what JavaScript takes as true of an optional string
Truthy(str) == str \notin {Undefined, Null, ""}

\* The same initUserKmlData, but resetting the data of every user that has some.
initUserKmlData_everyUser(k, telegramId) ==
    [k EXCEPT !.data = [v \in DOMAIN @ \cup {telegramId} |->
                           [placemarks |-> <<>>, lines |-> <<>>,
                            activeLine |-> NoLine,
                            persistentPointName |-> Null]]]

\* KmlService.initUserKmlData
initUserKmlData(k, telegramId) ==
    [k EXCEPT !.data = MapSet(@, telegramId,
                              [placemarks |-> <<>>, lines |-> <<>>,
                               activeLine |-> NoLine,
                               persistentPointName |-> Null])]

\* KmlService.getUserKmlData
getUserKmlData(k, telegramId) ==
    IF MapHas(k.data, telegramId) THEN k ELSE initUserKmlData(k, telegramId)

\* KmlService.handleKmlCommand, from the return of validateUser on
handleKmlCommand(k, telegramId, userFound) ==
    IF userFound THEN initUserKmlData(k, telegramId) ELSE k

\* KmlService.setAlwaysPoint
setAlwaysPoint(k, telegramId, pointName) ==
    LET k1 == getUserKmlData(k, telegramId)
    IN [k1 EXCEPT !.data[telegramId].persistentPointName =
                      IF Truthy(pointName) THEN pointName ELSE Null]

\* KmlService.setNextPointName
setNextPointName(k, telegramId, pointName) ==
    [k EXCEPT !.next = MapSet(@, telegramId, pointName)]

\* the pending one-shot name of the user, undefined if none
NextNameOf(k, telegramId) ==
    IF MapHas(k.next, telegramId) THEN k.next[telegramId] ELSE Undefined

\* The same choice of name, but preferring the persistent name to the pending one
PointNameFor_persistentFirst(k, telegramId, pointName, defaultPrefix) ==
    LET userData == k.data[telegramId]
    IN IF Truthy(pointName) THEN pointName
       ELSE IF Truthy(userData.persistentPointName) THEN userData.persistentPointName
       ELSE IF Truthy(NextNameOf(k, telegramId)) THEN NextNameOf(k, telegramId)
       ELSE defaultPrefix \o ToString(Len(userData.placemarks) + 1)

\* The name an individual point gets, in addPoint and handleLocation
PointNameFor(k, telegramId, pointName, defaultPrefix) ==
    LET userData == k.data[telegramId]
    IN IF Truthy(pointName) THEN pointName
       ELSE IF Truthy(NextNameOf(k, telegramId)) THEN NextNameOf(k, telegramId)
       ELSE IF Truthy(userData.persistentPointName) THEN userData.persistentPointName
       ELSE defaultPrefix \o ToString(Len(userData.placemarks) + 1)

\* The same storing, but a point of the active line uses up the pending name
StorePoint_nameOnLine(k, telegramId, loc, pointName, defaultPrefix) ==
    LET userData == k.data[telegramId]
    IN IF userData.activeLine # NoLine
       THEN [k EXCEPT !.data[telegramId].activeLine.points = Append(@, loc),
                      !.next = MapDelete(@, telegramId)]
       ELSE [k EXCEPT
               !.data[telegramId].placemarks =
                   Append(@, [loc |-> loc,
                              name |-> PointNameFor(k, telegramId, pointName,
                                                    defaultPrefix)]),
               !.next = IF ~Truthy(pointName) /\ Truthy(NextNameOf(k, telegramId))
                        THEN MapDelete(@, telegramId) ELSE @]

\* Store an accepted point: on the active line, or as a new placemark
StorePoint(k, telegramId, loc, pointName, defaultPrefix) ==
    LET userData == k.data[telegramId]
    IN IF userData.activeLine # NoLine
       THEN [k EXCEPT !.data[telegramId].activeLine.points = Append(@, loc)]
       ELSE [k EXCEPT
               !.data[telegramId].placemarks =
                   Append(@, [loc |-> loc,
                              name |-> PointNameFor(k, telegramId, pointName,
                                                    defaultPrefix)]),
               !.next = IF ~Truthy(pointName) /\ Truthy(NextNameOf(k, telegramId))
                        THEN MapDelete(@, telegramId) ELSE @]

\* latitude < -90 || latitude > 90 || longitude < -180 || longitude > 180
CoordinatesInvalid(loc) ==
    \/ Latitude(loc) < -90 \/ Latitude(loc) > 90
    \/ Longitude(loc) < -180 \/ Longitude(loc) > 180

\* KmlService.addPoint
addPoint(k, telegramId, loc, pointName) ==
    LET k1 == getUserKmlData(k, telegramId)
    IN IF CoordinatesInvalid(loc) THEN k1
       ELSE StorePoint(k1, telegramId, loc, pointName, "Titik ")

addPointReply(k, telegramId, loc) ==
    LET k1 == getUserKmlData(k, telegramId)
    IN IF CoordinatesInvalid(loc) THEN "invalid_coordinates"
       ELSE IF k1.data[telegramId].activeLine # NoLine THEN "added_to_line"
       ELSE "point_saved"

\* KmlService.handleLocation
Kml_handleLocation(k, telegramId, loc) ==
    StorePoint(getUserKmlData(k, telegramId), telegramId, loc, Undefined,
               "Titik Terlampir ")

Kml_handleLocationReply(k, telegramId) ==
    IF getUserKmlData(k, telegramId).data[telegramId].activeLine # NoLine
    THEN "added_to_line" ELSE "point_saved"

\* KmlService.startLine
startLine(k, telegramId, lineName) ==
    LET k1 == getUserKmlData(k, telegramId)
        userData == k1.data[telegramId]
    IN IF userData.activeLine # NoLine THEN k1
       ELSE [k1 EXCEPT !.data[telegramId].activeLine =
                [name |-> IF Truthy(lineName) THEN lineName
                          ELSE "Garis " \o ToString(Len(userData.lines) + 1),
                 points |-> <<>>]]

startLineReply(k, telegramId) ==
    IF getUserKmlData(k, telegramId).data[telegramId].activeLine # NoLine
    THEN "line_already_active" ELSE "line_started"

\* endLine without the check of the number of points
endLine_anyLength(k, telegramId) ==
    LET k1 == getUserKmlData(k, telegramId)
        userData == k1.data[telegramId]
    IN IF userData.activeLine = NoLine THEN k1
       ELSE [k1 EXCEPT
               !.data[telegramId].lines =
                   Append(@, [name |-> userData.activeLine.name,
                              coordinates |-> userData.activeLine.points]),
               !.data[telegramId].activeLine = NoLine]

\* KmlService.endLine
endLine(k, telegramId) ==
    LET k1 == getUserKmlData(k, telegramId)
        userData == k1.data[telegramId]
    IN IF userData.activeLine = NoLine THEN k1
       ELSE IF Len(userData.activeLine.points) < 2 THEN k1
       ELSE [k1 EXCEPT
               !.data[telegramId].lines =
                   Append(@, [name |-> userData.activeLine.name,
                              coordinates |-> userData.activeLine.points]),
               !.data[telegramId].activeLine = NoLine]

endLineReply(k, telegramId) ==
    LET userData == getUserKmlData(k, telegramId).data[telegramId]
    IN IF userData.activeLine = NoLine THEN "no_active_line"
       ELSE IF Len(userData.activeLine.points) < 2 THEN "too_few_points"
       ELSE "line_saved"

\* KmlService.cancelLine
cancelLine(k, telegramId) ==
    LET k1 == getUserKmlData(k, telegramId)
    IN [k1 EXCEPT !.data[telegramId].activeLine = NoLine]

cancelLineReply(k, telegramId) ==
    IF getUserKmlData(k, telegramId).data[telegramId].activeLine = NoLine
    THEN "no_active_line" ELSE "line_cancelled"

\* KmlService.clearData
clearData(k, telegramId) ==
    LET k1 == initUserKmlData(k, telegramId)
    IN [k1 EXCEPT !.next = MapDelete(@, telegramId)]

(***************************************************************************)
(* ArchiveService                                                          *)
(* The operators work on a = [ref, objs, calls, stats] of one user; stats  *)
(* is <<>> while the user has no entry in userStats.  Of UsageStats,       *)
(* filesSent (it adds a random count) and lastUsed are only displayed by   *)
(* getStats and are left out.                                              *)
(***************************************************************************)
ArchiveOf(u) ==
    [ref |-> IF MapHas(archStates, u) THEN archStates[u] ELSE 0,
     objs |-> archObjs[u], calls |-> archCalls[u],
     stats |-> IF MapHas(archStats, u) THEN <<archStats[u]>> ELSE <<>>]

\* searchResults not set
NoResults == <<[stem |-> Undefined, time |-> 0, ext |-> Undefined]>>

\* ArchiveService.initUserState
Archive_initUserState(a, mode) ==
    LET kept == Collect(a.objs, HeldRefs(a.calls))
        r == NewRef(kept)
    IN [a EXCEPT !.ref = r,
                 !.objs = MapSet(kept, r, [mode |-> mode,
                                           files |-> <<>>,
                                           timestamp |-> now,
                                           searchPattern |-> Undefined,
                                           extractedDir |-> Undefined,
                                           searchResults |-> NoResults,
                                           extractedDirs |-> <<>>])]

\* ArchiveService.getUserStats
Archive_getUserStats(a) ==
    IF a.stats # <<>> THEN a
    ELSE [a EXCEPT !.stats = <<[zipCount |-> 0, extractCount |-> 0,
                                searchCount |-> 0, filesReceived |-> 0]>>]

\* ArchiveService.handleArchiveCommand, from the return of validateUser on
handleArchiveCommand(a, userFound) ==
    IF userFound THEN Archive_initUserState(a, Null) ELSE a

\* ArchiveService.startZipMode / startExtractMode / startSearchMode
startZipMode(a) == Archive_initUserState(a, "zip")
startExtractMode(a) == Archive_initUserState(a, "extract")
startSearchMode(a) == Archive_initUserState(a, "search")

\* !state || !state.mode
NoSubMode(a) == a.ref = 0 \/ a.objs[a.ref].mode = Null

\* ArchiveService.autoExtractForSearch
autoExtractForSearch(a) ==
    LET extractDir == "search_extracted_" \o ToString(now)
        a1 == [a EXCEPT !.objs[a.ref].extractedDirs = Append(@, extractDir),
                        !.objs[a.ref].extractedDir = extractDir]
    IN [Archive_getUserStats(a1) EXCEPT !.stats[1].extractCount = @ + 1]

\* ArchiveService.addFile
addFile(a, fileName) ==
    IF NoSubMode(a) THEN a
    ELSE LET a1 == [a EXCEPT !.objs[a.ref].files = Append(@, fileName)]
             a2 == [Archive_getUserStats(a1) EXCEPT !.stats[1].filesReceived = @ + 1]
         IN IF a.objs[a.ref].mode = "search" THEN autoExtractForSearch(a2) ELSE a2

addFileReply(a) ==
    IF NoSubMode(a) THEN "select_mode_first"
    ELSE IF a.objs[a.ref].mode = "search" THEN "received_and_extracted"
    ELSE "received"

\* ArchiveService.processFiles up to the await in createZipFile / extractFiles
processFilesReply(a) ==
    IF NoSubMode(a) THEN "select_mode_first"
    ELSE IF a.objs[a.ref].mode = "search" THEN "search_uses_auto_extract"
    ELSE IF Len(a.objs[a.ref].files) = 0 THEN "no_files"
    ELSE "-"

processFiles_begin(a) ==
    IF processFilesReply(a) # "-" THEN a
    ELSE [a EXCEPT !.calls = @ (+) SetToBag({[state |-> a.ref,
                                              kind |-> a.objs[a.ref].mode]})]

\* ArchiveService.createZipFile / extractFiles after the await; call.state is the
\* reference read before it
processFiles_end(a, call) ==
    LET a0 == [a EXCEPT !.calls = @ (-) SetToBag({call})]
        a1 == IF call.kind = "zip"
              THEN [Archive_getUserStats(a0) EXCEPT !.stats[1].zipCount = @ + 1]
              ELSE [Archive_getUserStats(a0) EXCEPT !.stats[1].extractCount = @ + 1]
    IN Archive_initUserState(a1, Null)

\* `File ZIP berhasil dibuat dengan ${state.files.length} file.`
zippedFileCount(a, call) == Len(a.objs[call.state].files)

\* The mock results of searchFiles and its filter, for the patterns explored: a
\* pattern with '*' is matched as a regular expression, another one as a substring.
MockResults ==
    <<[stem |-> "document", time |-> now, ext |-> "pdf"],
      [stem |-> "image", time |-> now, ext |-> "jpg"],
      [stem |-> "data", time |-> now, ext |-> "xlsx"]>>

SearchPatterns == {"*.jpg", "zzz"}

PatternMatches(file, searchPattern) ==
    CASE searchPattern = "*.jpg" -> file.ext = "jpg"
      [] searchPattern = "zzz" -> FALSE

\* the precondition of searchFiles does not hold
CannotSearch(a) ==
    \/ a.ref = 0
    \/ a.objs[a.ref].mode # "search"
    \/ Len(a.objs[a.ref].extractedDirs) = 0

\* ArchiveService.searchFiles
searchFiles(a, searchPattern) ==
    IF CannotSearch(a) THEN a
    ELSE LET filteredResults ==
                 SelectSeq(MockResults, LAMBDA f : PatternMatches(f, searchPattern))
             a1 == [a EXCEPT !.objs[a.ref].searchPattern = searchPattern,
                             !.objs[a.ref].searchResults = filteredResults]
         IN [Archive_getUserStats(a1) EXCEPT !.stats[1].searchCount = @ + 1]

searchFilesReply(a, searchPattern) ==
    IF CannotSearch(a) THEN "search_and_send_archive_first"
    ELSE IF SelectSeq(MockResults, LAMBDA f : PatternMatches(f, searchPattern)) = <<>>
    THEN "not_found" ELSE "found"

\* the precondition of sendSelectedFiles does not hold
NothingSelected(a) ==
    \/ a.ref = 0
    \/ a.objs[a.ref].mode # "search"
    \/ a.objs[a.ref].searchResults = NoResults
    \/ Len(a.objs[a.ref].searchResults) = 0

\* sendSelectedFiles that empties the results before it checks its precondition
sendSelectedFiles_clearFirst(a) ==
    IF a.ref = 0 THEN a
    ELSE [a EXCEPT !.objs[a.ref].searchResults = <<>>]

\* ArchiveService.sendSelectedFiles
sendSelectedFiles(a) ==
    IF NothingSelected(a) THEN a
    ELSE [a EXCEPT !.objs[a.ref].searchResults = <<>>]

sendSelectedFilesReply(a) ==
    IF NothingSelected(a) THEN "nothing_selected" ELSE "sent"

(***************************************************************************)
(* WorkbookService                                                         *)
(* The operators work on w = [ref, objs, loops, folders, done] of one      *)
(* user: ref is the user's entry of the Map (0: none), loops the calls of  *)
(* processPhotoQueue that are suspended in await this.sleep(...), each     *)
(* holding the state it read and the task it shifted off the queue, and    *)
(* folders the sheet folders on disk.  A task is the number of the photo   *)
(* in the order of acceptance.  Of UserWorkbookState the fields            *)
(* newFolderPath, processingQueue, isProcessingQueue and lastProcessTime   *)
(* are kept (0: never processed, 1: some Date.now()); the counters and     *)
(* downloadFlag are only written.  Calls on this.logger are taken to       *)
(* return without touching the state.                                      *)
(*                                                                         *)
(* The handlers contain no await; processPhotoQueue awaits sleep (a timer) *)
(* and processPhotoTask (which resolves at once, so that the loop goes on  *)
(* before any other handler runs).  A loop therefore runs from its start,  *)
(* or from the end of a sleep, to its next sleep or to its end in one step.*)
(***************************************************************************)
WorkbookOf(u) ==
    [ref |-> IF MapHas(wbStates, u) THEN wbStates[u] ELSE 0,
     objs |-> wbObjs[u], loops |-> wbLoops[u], folders |-> wbFolders[u],
     done |-> wbDone[u]]

LoopStates(loops) == {l.state : l \in loops}

\* WorkbookService.initUserWorkbookState
initUserWorkbookState(w) ==
    LET kept == Collect(w.objs, LoopStates(w.loops))
        r == NewRef(kept)
    IN [w EXCEPT !.ref = r,
                 !.objs = MapSet(kept, r, [newFolderPath |-> "",
                                           processingQueue |-> <<>>,
                                           isProcessingQueue |-> FALSE,
                                           lastProcessTime |-> 0])]

\* WorkbookService.getUserWorkbookState
getUserWorkbookState(w) == IF w.ref # 0 THEN w ELSE initUserWorkbookState(w)

\* WorkbookService.handleWorkbookCommand
handleWorkbookCommand(w) == initUserWorkbookState(w)

\* WorkbookService.createSheet
createSheet(w, sheetName) ==
    LET w1 == getUserWorkbookState(w)
    IN [w1 EXCEPT !.objs[w1.ref].newFolderPath = sheetName,
                  !.folders = @ \cup {sheetName}]

\* WorkbookService.processPhotoTask: it writes the file, or throws when the state
\* the Map holds now has no sheet folder
processPhotoTask(w, task) ==
    LET state == getUserWorkbookState(w).ref
        folder == getUserWorkbookState(w).objs[state].newFolderPath
    IN IF folder = "" \/ folder \notin w.folders THEN "failed" ELSE "saved"

\* timeSinceLastProcess < 100: recent tells whether less than 100 ms have passed
\* since a lastProcessTime that was set; Date.now() - 0 is never below 100
mustSleep(lastProcessTime, recent) == lastProcessTime # 0 /\ recent

\* WorkbookService.processPhotoQueue from the test of its while loop on
\* (whileLoop), and from the end of await this.sleep(...) on (afterSleep); state
\* is the reference the call read at its start.  Right after a photo was saved
\* lastProcessTime is Date.now(), so the next task always sleeps.
RECURSIVE whileLoop(_, _, _), afterSleep(_, _, _, _)
whileLoop(w, state, recent) ==
    IF w.objs[state].processingQueue = <<>>
    THEN [w EXCEPT !.objs[state].isProcessingQueue = FALSE]
    ELSE LET task == Head(w.objs[state].processingQueue)
             w1 == [w EXCEPT !.objs[state].processingQueue = Tail(@)]
         IN IF mustSleep(w1.objs[state].lastProcessTime, recent)
            THEN [w1 EXCEPT !.loops = @ \cup {[state |-> state, task |-> task]}]
            ELSE afterSleep(w1, state, task, recent)

afterSleep(w, state, task, recent) ==
    LET w1 == getUserWorkbookState(w)
        result == processPhotoTask(w, task)
        w2 == [w1 EXCEPT !.done = Append(@, [task |-> task, result |-> result])]
    IN IF result = "saved"
       THEN whileLoop([w2 EXCEPT !.objs[state].lastProcessTime = 1], state, TRUE)
       ELSE whileLoop(w2, state, recent)

\* WorkbookService.processPhotoQueue up to its first await or its end
processPhotoQueue(w, recent) ==
    LET w1 == getUserWorkbookState(w)
        state == w1.ref
    IN IF w1.objs[state].isProcessingQueue \/ w1.objs[state].processingQueue = <<>>
       THEN w1
       ELSE whileLoop([w1 EXCEPT !.objs[state].isProcessingQueue = TRUE], state, recent)

\* WorkbookService.processPhotoQueue after await this.sleep(...)
processPhotoQueue_resume(w, loop, recent) ==
    afterSleep([w EXCEPT !.loops = @ \ {loop}], loop.state, loop.task, recent)

\* WorkbookService.addPhotoToQueue
NoSheet(w) == getUserWorkbookState(w).objs[getUserWorkbookState(w).ref].newFolderPath = ""

addPhotoToQueue(w, task, recent) ==
    LET w1 == getUserWorkbookState(w)
        state == w1.ref
        w2 == [w1 EXCEPT !.objs[state].processingQueue = Append(@, task)]
    IN IF NoSheet(w) THEN w1
       ELSE IF ~w2.objs[state].isProcessingQueue
            THEN processPhotoQueue(w2, recent)
            ELSE w2

addPhotoToQueueReply(w, task, recent) ==
    LET w3 == addPhotoToQueue(w, task, recent)
        queueLength == Len(w3.objs[w3.ref].processingQueue)
    IN IF NoSheet(w) THEN "create_sheet_first"
       ELSE IF queueLength = 1 THEN "photo_queued"
            ELSE IF queueLength % 10 = 0 THEN "photos_in_queue"
                 ELSE Null

\* WorkbookService.clearSheets
clearSheets(w) ==
    LET w1 == getUserWorkbookState(w)
    IN [w1 EXCEPT !.objs[w1.ref].processingQueue = <<>>,
                  !.objs[w1.ref].isProcessingQueue = FALSE,
                  !.objs[w1.ref].newFolderPath = "",
                  !.folders = {}]

\* WorkbookService.generateExcel: it reads the queue and the folders only
generateExcel(w) == getUserWorkbookState(w)

generateExcelReply(w) ==
    LET w1 == getUserWorkbookState(w)
    IN IF Len(w1.objs[w1.ref].processingQueue) > 0 THEN "photos_still_in_queue"
       ELSE IF w1.folders = {} THEN "no_sheets"
            ELSE "excel_created"

(***************************************************************************)
(* Initial state: every Map is empty                                       *)
(***************************************************************************)
InitMode ==
    /\ userModes = EmptyMap
    /\ userStates = [m \in FeatureModes |-> EmptyMap]
    /\ lastSet = [u \in Users |-> Null]
    /\ effects = <<>>

InitGeotags ==
    /\ geoStates = EmptyMap
    /\ geoEntered = {}
    /\ geoTouched = [u \in Users |-> -1]

InitOcr ==
    /\ ocrStates = EmptyMap
    /\ ocrObjs = [u \in Users |-> EmptyMap]
    /\ ocrCalls = [u \in Users |-> {}]

InitLocation ==
    /\ locStates = EmptyMap
    /\ locObjs = [u \in Users |-> EmptyMap]
    /\ locCalls = [u \in Users |-> EmptyBag]
    /\ locArrivals = [u \in Users |-> <<>>]

InitKml ==
    /\ kmlData = EmptyMap
    /\ kmlNextNames = EmptyMap

InitArchive ==
    /\ archStates = EmptyMap
    /\ archObjs = [u \in Users |-> EmptyMap]
    /\ archCalls = [u \in Users |-> EmptyBag]
    /\ archStats = EmptyMap

InitWorkbook ==
    /\ wbStates = EmptyMap
    /\ wbObjs = [u \in Users |-> EmptyMap]
    /\ wbLoops = [u \in Users |-> {}]
    /\ wbFolders = [u \in Users |-> {}]
    /\ wbAccepted = [u \in Users |-> 0]
    /\ wbDone = [u \in Users |-> <<>>]

InitServices ==
    /\ now = 0
    /\ lastCall = Call("init", "-", "-", "-")
    /\ InitMode
    /\ InitGeotags
    /\ InitOcr
    /\ InitLocation
    /\ InitKml
    /\ InitArchive
    /\ InitWorkbook

Init == InitServices /\ route = RouteCall("g1", "g1", "foot")

\* calculateRoute is about to run on any two points and any transport mode
InitRoute ==
    /\ InitServices
    /\ route \in {RouteCall(p1, p2, m) : p1 \in GeoPoints, p2 \in GeoPoints,
                                         m \in TransportModes}

\* Time passes between two handlers.
Tick(step, max) ==
    /\ now + step <= max
    /\ now' = now + step
    /\ lastCall' = Call("tick", "-", "-", "-")

Commit(w) ==
    /\ userModes' = w.userModes
    /\ userStates' = w.userStates
    /\ effects' = w.effects
    /\ UNCHANGED <<geoVars, ocrVars, locVars, kmlVars, archVars, wbVars, routeVars>>

(***************************************************************************)
(* Actions of SpecMode                                                     *)
(***************************************************************************)
SetUserMode(u, m) ==
    /\ Commit(setUserMode(World, u, m))
    /\ lastSet' = [lastSet EXCEPT ![u] = m]
    /\ lastCall' = Call("setUserMode", u, m, "-")
    /\ UNCHANGED now

UpdateLastActivity(u) ==
    /\ Commit(updateLastActivity(World, u))
    /\ lastCall' = Call("updateLastActivity", u, "-", "-")
    /\ UNCHANGED <<now, lastSet>>

CleanupInactiveSessions ==
    /\ Commit(cleanupInactiveSessions(World, SESSION_TIMEOUT))
    /\ lastSet' = [u \in Users |->
                     IF MapHas(userModes, u)
                        /\ now - userModes[u].lastActivity > SESSION_TIMEOUT
                     THEN Null ELSE lastSet[u]]
    /\ lastCall' = Call("cleanupInactiveSessions", "-", "-", "-")
    /\ UNCHANGED now

EnterMode(u, m, hasAccess) ==
    /\ Commit(enterMode(World, u, m, hasAccess))
    /\ lastSet' = [lastSet EXCEPT ![u] = IF hasAccess THEN m ELSE @]
    /\ lastCall' = Call("enterMode", u, m, IF hasAccess THEN "welcome" ELSE "no_access")
    /\ UNCHANGED now

HandleCommand(u, m) ==
    /\ Commit(handleCommand(World, u, m))
    /\ lastCall' = Call("handleCommand", u, m, handleCommandReply(u, m))
    /\ UNCHANGED <<now, lastSet>>

TickMode == Tick(TickStep, MaxTime) /\ UNCHANGED <<modeVars, geoVars, ocrVars, locVars, kmlVars, archVars, wbVars, routeVars>>

NextMode ==
    \/ TickMode
    \/ \E u \in Users, m \in BotMode : SetUserMode(u, m)
    \/ \E u \in Users : UpdateLastActivity(u)
    \/ CleanupInactiveSessions
    \/ \E u \in Users, m \in FeatureModes, a \in BOOLEAN : EnterMode(u, m, a)
    \/ \E u \in Users, m \in FeatureModes : HandleCommand(u, m)

SpecMode == Init /\ [][NextMode]_vars

(***************************************************************************)
(* Actions of SpecGeotags                                                  *)
(***************************************************************************)
Touch(u) == geoTouched' = [geoTouched EXCEPT ![u] = now]

HandleGeotagsCommand(u, userFound) ==
    /\ geoStates' = Geotags_handleGeotagsCommand(geoStates, u, userFound)
    /\ geoEntered' = IF userFound THEN geoEntered \cup {u} ELSE geoEntered
    /\ IF userFound THEN Touch(u) ELSE UNCHANGED geoTouched
    /\ lastCall' = Call("handleGeotagsCommand", u, "-",
                        IF userFound THEN "help" ELSE "error")
    /\ UNCHANGED <<now, modeVars, ocrVars, locVars, kmlVars, archVars, wbVars, routeVars>>

ToggleAlwaysTag(u) ==
    /\ geoStates' = Geotags_toggleAlwaysTag(geoStates, u)
    /\ Touch(u)
    /\ lastCall' = Call("toggleAlwaysTag", u, "-", Geotags_toggleAlwaysTagReply(geoStates, u))
    /\ UNCHANGED <<now, modeVars, ocrVars, locVars, kmlVars, archVars, wbVars, routeVars, geoEntered>>

GeotagsHandlePhoto(u, photoFileId) ==
    /\ geoStates' = Geotags_handlePhoto(geoStates, u, photoFileId)
    /\ Touch(u)
    /\ lastCall' = Call("handlePhoto", u, photoFileId, Geotags_handlePhotoReply(geoStates, u))
    /\ UNCHANGED <<now, modeVars, ocrVars, locVars, kmlVars, archVars, wbVars, routeVars, geoEntered>>

GeotagsHandleLocation(u, location) ==
    /\ geoStates' = Geotags_handleLocation(geoStates, u, location)
    /\ Touch(u)
    /\ lastCall' = Call("handleLocation", u, location, Geotags_handleLocationReply(geoStates, u))
    /\ UNCHANGED <<now, modeVars, ocrVars, locVars, kmlVars, archVars, wbVars, routeVars, geoEntered>>

GeotagsCleanupExpiredStates ==
    /\ geoStates' = Geotags_cleanupExpiredStates(geoStates)
    /\ lastCall' = Call("cleanupExpiredStates", "-", "-", "-")
    /\ UNCHANGED <<now, modeVars, ocrVars, locVars, kmlVars, archVars, wbVars, routeVars, geoEntered, geoTouched>>

TickGeotags == Tick(StateTickStep, StateMaxTime) /\ UNCHANGED <<modeVars, geoVars, ocrVars, locVars, kmlVars, archVars, wbVars, routeVars>>

NextGeotags ==
    \/ TickGeotags
    \/ \E u \in Users, f \in BOOLEAN : HandleGeotagsCommand(u, f)
    \/ \E u \in Users : ToggleAlwaysTag(u)
    \/ \E u \in Users, p \in PhotoIds : GeotagsHandlePhoto(u, p)
    \/ \E u \in Users, l \in Locations : GeotagsHandleLocation(u, l)
    \/ GeotagsCleanupExpiredStates

SpecGeotags == Init /\ [][NextGeotags]_vars

(***************************************************************************)
(* Actions of SpecOcr                                                      *)
(***************************************************************************)
\* Store user u's part o back, dropping the objects nothing refers to any more.
OcrCommit(u, o) ==
    /\ ocrStates' = IF o.ref = 0 THEN MapDelete(ocrStates, u)
                    ELSE MapSet(ocrStates, u, o.ref)
    /\ ocrObjs' = [ocrObjs EXCEPT ![u] = Collect(o.objs, o.calls \cup {o.ref})]
    /\ ocrCalls' = [ocrCalls EXCEPT ![u] = o.calls]
    /\ UNCHANGED <<now, modeVars, geoVars, locVars, kmlVars, archVars, wbVars, routeVars>>

HandleOcrCommand(u, userFound) ==
    /\ userFound => CanAlloc(Collect(ocrObjs[u], ocrCalls[u]))
    /\ OcrCommit(u, Ocr_handleOcrCommand(OcrOf(u), userFound))
    /\ lastCall' = Call("handleOcrCommand", u, "-", IF userFound THEN "help" ELSE "error")

ProcessImageBegin(u) ==
    /\ ~MapHas(ocrStates, u) => CanAlloc(ocrObjs[u])
    /\ MapHas(ocrStates, u) => ocrObjs[u][ocrStates[u]].imagesProcessed < MaxImages
    /\ OcrCommit(u, Ocr_processImage_begin(OcrOf(u)))
    /\ lastCall' = Call("processImage", u, "-", Ocr_processImage_beginReply(OcrOf(u)))

ProcessImageEnd(u, state) ==
    /\ state \in ocrCalls[u]
    /\ OcrCommit(u, Ocr_processImage_end(OcrOf(u), state))
    /\ lastCall' = Call("processImage", u, "-", "ocr_result")

OcrCleanupExpiredStates ==
    /\ ocrStates' = [u \in {x \in DOMAIN ocrStates :
                               Ocr_cleanupExpiredStates(OcrOf(x)).ref # 0}
                       |-> ocrStates[u]]
    /\ ocrObjs' = [u \in Users |->
                     Collect(ocrObjs[u],
                             ocrCalls[u] \cup {Ocr_cleanupExpiredStates(OcrOf(u)).ref})]
    /\ lastCall' = Call("cleanupExpiredStates", "-", "-", "-")
    /\ UNCHANGED <<now, modeVars, geoVars, locVars, kmlVars, archVars, wbVars, routeVars, ocrCalls>>

TickOcr == Tick(StateTickStep, StateMaxTime) /\ UNCHANGED <<modeVars, geoVars, ocrVars, locVars, kmlVars, archVars, wbVars, routeVars>>

NextOcr ==
    \/ TickOcr
    \/ \E u \in Users, f \in BOOLEAN : HandleOcrCommand(u, f)
    \/ \E u \in Users : ProcessImageBegin(u)
    \/ \E u \in Users, r \in Refs : ProcessImageEnd(u, r)
    \/ OcrCleanupExpiredStates

SpecOcr == Init /\ [][NextOcr]_vars

(***************************************************************************)
(* Actions of SpecLocation                                                 *)
(***************************************************************************)
LocCommit(u, m) ==
    /\ locStates' = IF m.ref = 0 THEN MapDelete(locStates, u)
                    ELSE MapSet(locStates, u, m.ref)
    /\ locObjs' = [locObjs EXCEPT ![u] = Collect(m.objs, HeldRefs(m.calls) \cup {m.ref})]
    /\ locCalls' = [locCalls EXCEPT ![u] = m.calls]
    /\ UNCHANGED <<now, modeVars, geoVars, ocrVars, kmlVars, archVars, wbVars, routeVars>>

\* the sequence without its first element equal to call
WithoutFirst(seq, call) ==
    LET i == CHOOSE k \in 1..Len(seq) :
                 seq[k] = call /\ \A j \in 1..(k - 1) : seq[j] # call
    IN SubSeq(seq, 1, i - 1) \o SubSeq(seq, i + 1, Len(seq))

LocCanAlloc(u) == CanAlloc(Collect(locObjs[u], HeldRefs(locCalls[u])))

HandleLocationCommand(u) ==
    /\ LocCanAlloc(u)
    /\ LocCommit(u, handleLocationCommand(LocOf(u)))
    /\ lastCall' = Call("handleLocationCommand", u, "-", "help")
    /\ UNCHANGED locArrivals

StartMeasurement(u, transportMode) ==
    /\ LocCanAlloc(u)
    /\ LocCommit(u, startMeasurement(LocOf(u), transportMode))
    /\ lastCall' = Call("startMeasurement", u, transportMode, "send_first_point")
    /\ UNCHANGED locArrivals

CancelMeasurement(u) ==
    /\ LocCanAlloc(u)
    /\ LocCommit(u, cancelMeasurement(LocOf(u)))
    /\ lastCall' = Call("cancelMeasurement", u, "-", cancelMeasurementReply(LocOf(u)))
    /\ UNCHANGED locArrivals

ProcessLocationBegin(u, loc) ==
    /\ BagCardinality(locCalls[u]) < MaxCalls
    /\ LocCommit(u, processLocation_begin(LocOf(u), loc))
    /\ lastCall' = Call("processLocationForMeasurement", u, loc,
                        processLocation_beginReply(LocOf(u)))
    /\ locArrivals' = IF MeasurementActive(LocOf(u))
                      THEN [locArrivals EXCEPT
                              ![u] = Append(@, [state |-> locStates[u], loc |-> loc])]
                      ELSE locArrivals

ProcessLocationEnd(u, call, geo) ==
    /\ BagIn(call, locCalls[u])
    /\ LocCommit(u, processLocation_end(LocOf(u), call, geo))
    /\ lastCall' = Call("processLocationForMeasurement", u, call.loc,
                        processLocation_endReply(LocOf(u), call, geo))
    /\ locArrivals' = [locArrivals EXCEPT ![u] = WithoutFirst(@, call)]

TickLocation == Tick(StateTickStep, StateMaxTime) /\ UNCHANGED <<modeVars, geoVars, ocrVars, locVars, kmlVars, archVars, wbVars, routeVars>>

NextLocation ==
    \/ TickLocation
    \/ \E u \in LocationUsers : HandleLocationCommand(u)
    \/ \E u \in LocationUsers, t \in TransportModes : StartMeasurement(u, t)
    \/ \E u \in LocationUsers : CancelMeasurement(u)
    \/ \E u \in LocationUsers, l \in Locations : ProcessLocationBegin(u, l)
    \/ \E u \in LocationUsers, r \in Refs, l \in Locations, g \in GeocoderResults :
          ProcessLocationEnd(u, [state |-> r, loc |-> l], g)

SpecLocation == Init /\ [][NextLocation]_vars

\* The same handlers without the clock, fed with any coordinates.
NextLocationAnyInput ==
    \/ \E u \in LocationUsers : HandleLocationCommand(u)
    \/ \E u \in LocationUsers, t \in TransportModes : StartMeasurement(u, t)
    \/ \E u \in LocationUsers : CancelMeasurement(u)
    \/ \E u \in LocationUsers, l \in Locations \cup {OutOfRange} :
          ProcessLocationBegin(u, l)
    \/ \E u \in LocationUsers, r \in Refs, l \in Locations \cup {OutOfRange},
          g \in GeocoderResults :
          ProcessLocationEnd(u, [state |-> r, loc |-> l], g)

SpecLocationAnyInput == Init /\ [][NextLocationAnyInput]_vars

(***************************************************************************)
(* Actions of SpecKml                                                      *)
(***************************************************************************)
KmlCommit(k) ==
    /\ kmlData' = k.data
    /\ kmlNextNames' = k.next
    /\ UNCHANGED <<now, modeVars, geoVars, ocrVars, locVars, archVars, wbVars, routeVars>>

\* the names a user types: none, or one name per command
ExplicitNames == {Undefined, "A"}
NextNames == {"N"}
PersistentNames == {Undefined, "P"}
LineNames == {Undefined, "L"}
\* the coordinates a user sends: a point on the globe and one that is not
KmlLocations == {"l1", OutOfRange}

\* There is room for the point that the user's data would take next.
RoomForPoint(u) ==
    LET userData == getUserKmlData(KmlOf, u).data[u]
    IN IF userData.activeLine # NoLine
       THEN Len(userData.activeLine.points) < MaxLinePoints
       ELSE Len(userData.placemarks) < MaxPlacemarks

HandleKmlCommand(u, userFound) ==
    /\ KmlCommit(handleKmlCommand(KmlOf, u, userFound))
    /\ lastCall' = Call("handleKmlCommand", u, "-", IF userFound THEN "help" ELSE "error")

SetAlwaysPoint(u, pointName) ==
    /\ KmlCommit(setAlwaysPoint(KmlOf, u, pointName))
    /\ lastCall' = Call("setAlwaysPoint", u, pointName, "-")

SetNextPointName(u, pointName) ==
    /\ KmlCommit(setNextPointName(KmlOf, u, pointName))
    /\ lastCall' = Call("setNextPointName", u, pointName, "-")

AddPoint(u, loc, pointName) ==
    /\ RoomForPoint(u)
    /\ KmlCommit(addPoint(KmlOf, u, loc, pointName))
    /\ lastCall' = Call("addPoint", u, loc, addPointReply(KmlOf, u, loc))

KmlHandleLocation(u, loc) ==
    /\ RoomForPoint(u)
    /\ KmlCommit(Kml_handleLocation(KmlOf, u, loc))
    /\ lastCall' = Call("handleLocation", u, loc, Kml_handleLocationReply(KmlOf, u))

StartLine(u, lineName) ==
    /\ KmlCommit(startLine(KmlOf, u, lineName))
    /\ lastCall' = Call("startLine", u, lineName, startLineReply(KmlOf, u))

EndLine(u) ==
    /\ Len(getUserKmlData(KmlOf, u).data[u].lines) < MaxLines
    /\ KmlCommit(endLine(KmlOf, u))
    /\ lastCall' = Call("endLine", u, "-", endLineReply(KmlOf, u))

CancelLine(u) ==
    /\ KmlCommit(cancelLine(KmlOf, u))
    /\ lastCall' = Call("cancelLine", u, "-", cancelLineReply(KmlOf, u))

ClearData(u) ==
    /\ KmlCommit(clearData(KmlOf, u))
    /\ lastCall' = Call("clearData", u, "-", "cleared")

NextKml ==
    \/ \E u \in KmlUsers, f \in BOOLEAN : HandleKmlCommand(u, f)
    \/ \E u \in KmlUsers, n \in PersistentNames : SetAlwaysPoint(u, n)
    \/ \E u \in KmlUsers, n \in NextNames : SetNextPointName(u, n)
    \/ \E u \in KmlUsers, l \in KmlLocations, n \in ExplicitNames :
          AddPoint(u, l, n)
    \/ \E u \in KmlUsers, l \in KmlLocations : KmlHandleLocation(u, l)
    \/ \E u \in KmlUsers, n \in LineNames : StartLine(u, n)
    \/ \E u \in KmlUsers : EndLine(u)
    \/ \E u \in KmlUsers : CancelLine(u)
    \/ \E u \in KmlUsers : ClearData(u)

SpecKml == Init /\ [][NextKml]_vars

(***************************************************************************)
(* SpecWorkflows: the location and the KML handlers of two users,          *)
(* interleaved.  Each user has at most one location call in flight and at  *)
(* most one placemark, and walks.                                          *)
(***************************************************************************)
NoCallInFlight(u) == BagCardinality(locCalls[u]) = 0

NoPlacemark(u) == MapHas(kmlData, u) => Len(kmlData[u].placemarks) = 0

FirstLocationCall(u) == NoCallInFlight(u) /\ ProcessLocationBegin(u, "l1")

FirstPlacemark(u) == NoPlacemark(u) /\ KmlHandleLocation(u, "l1")

NextWorkflows ==
    \/ \E u \in Users : HandleLocationCommand(u)
    \/ \E u \in Users : StartMeasurement(u, "foot")
    \/ \E u \in Users : CancelMeasurement(u)
    \/ \E u \in Users : FirstLocationCall(u)
    \/ \E u \in Users, r \in Refs, g \in GeocoderResults :
          ProcessLocationEnd(u, [state |-> r, loc |-> "l1"], g)
    \/ \E u \in Users : HandleKmlCommand(u, TRUE)
    \/ \E u \in Users : FirstPlacemark(u)
    \/ \E u \in Users : ClearData(u)

SpecWorkflows == Init /\ [][NextWorkflows]_vars

(***************************************************************************)
(* Actions of SpecArchive                                                  *)
(* cleanupExpiredStates is private and never called; the handlers are      *)
(* explored at one instant.                                                *)
(***************************************************************************)
ArchiveCommit(u, a) ==
    /\ archStates' = IF a.ref = 0 THEN MapDelete(archStates, u)
                     ELSE MapSet(archStates, u, a.ref)
    /\ archObjs' = [archObjs EXCEPT ![u] = Collect(a.objs, HeldRefs(a.calls) \cup {a.ref})]
    /\ archCalls' = [archCalls EXCEPT ![u] = a.calls]
    /\ archStats' = IF a.stats = <<>> THEN archStats ELSE MapSet(archStats, u, a.stats[1])
    /\ UNCHANGED <<now, modeVars, geoVars, ocrVars, locVars, kmlVars, wbVars, routeVars>>

ArchiveCanAlloc(u) == CanAlloc(Collect(archObjs[u], HeldRefs(archCalls[u])))

\* counter c of user u's statistics can still count
CanCount(u, c) == MapHas(archStats, u) => archStats[u][c] < MaxCount

ArchiveFiles == {"f1", "f2"}

HandleArchiveCommand(u, userFound) ==
    /\ userFound => ArchiveCanAlloc(u)
    /\ ArchiveCommit(u, handleArchiveCommand(ArchiveOf(u), userFound))
    /\ lastCall' = Call("handleArchiveCommand", u, "-",
                        IF userFound THEN "help" ELSE "error")

StartZipMode(u) ==
    /\ ArchiveCanAlloc(u)
    /\ ArchiveCommit(u, startZipMode(ArchiveOf(u)))
    /\ lastCall' = Call("startZipMode", u, "-", "zip_mode")

StartExtractMode(u) ==
    /\ ArchiveCanAlloc(u)
    /\ ArchiveCommit(u, startExtractMode(ArchiveOf(u)))
    /\ lastCall' = Call("startExtractMode", u, "-", "extract_mode")

StartSearchMode(u) ==
    /\ ArchiveCanAlloc(u)
    /\ ArchiveCommit(u, startSearchMode(ArchiveOf(u)))
    /\ lastCall' = Call("startSearchMode", u, "-", "search_mode")

AddFile(u, fileName) ==
    /\ ~NoSubMode(ArchiveOf(u))
          => /\ Len(archObjs[u][archStates[u]].files) < MaxFiles
             /\ CanCount(u, "filesReceived")
             /\ CanCount(u, "extractCount")
    /\ ArchiveCommit(u, addFile(ArchiveOf(u), fileName))
    /\ lastCall' = Call("addFile", u, fileName, addFileReply(ArchiveOf(u)))

ProcessFilesBegin(u) ==
    /\ BagCardinality(archCalls[u]) < MaxJobs
    /\ ArchiveCommit(u, processFiles_begin(ArchiveOf(u)))
    /\ lastCall' = Call("processFiles", u, "-", processFilesReply(ArchiveOf(u)))

ProcessFilesEnd(u, call) ==
    /\ BagIn(call, archCalls[u])
    /\ CanCount(u, "zipCount") /\ CanCount(u, "extractCount")
    /\ ArchiveCommit(u, processFiles_end(ArchiveOf(u), call))
    /\ lastCall' = IF call.kind = "zip"
                   THEN Call("createZipFile", u,
                             ToString(zippedFileCount(ArchiveOf(u), call)), "zip_created")
                   ELSE Call("extractFiles", u, "-", "extracted")

SearchFiles(u, searchPattern) ==
    /\ CanCount(u, "searchCount")
    /\ ArchiveCommit(u, searchFiles(ArchiveOf(u), searchPattern))
    /\ lastCall' = Call("searchFiles", u, searchPattern,
                        searchFilesReply(ArchiveOf(u), searchPattern))

SendSelectedFiles(u) ==
    /\ ArchiveCommit(u, sendSelectedFiles(ArchiveOf(u)))
    /\ lastCall' = Call("sendSelectedFiles", u, "-", sendSelectedFilesReply(ArchiveOf(u)))

NextArchive ==
    \/ \E u \in ArchiveUsers, f \in BOOLEAN : HandleArchiveCommand(u, f)
    \/ \E u \in ArchiveUsers : StartZipMode(u)
    \/ \E u \in ArchiveUsers : StartExtractMode(u)
    \/ \E u \in ArchiveUsers : StartSearchMode(u)
    \/ \E u \in ArchiveUsers, f \in ArchiveFiles : AddFile(u, f)
    \/ \E u \in ArchiveUsers : ProcessFilesBegin(u)
    \/ \E u \in ArchiveUsers, r \in Refs, k \in {"zip", "extract"} :
          ProcessFilesEnd(u, [state |-> r, kind |-> k])
    \/ \E u \in ArchiveUsers, p \in SearchPatterns : SearchFiles(u, p)
    \/ \E u \in ArchiveUsers : SendSelectedFiles(u)

SpecArchive == Init /\ [][NextArchive]_vars

(***************************************************************************)
(* SpecRoute: calculateRoute applied to its arguments                      *)
(***************************************************************************)
CalculateRoute ==
    /\ ~route.returned
    /\ route' = calculateRoute(route.firstPoint, route.secondPoint, route.transportMode)
    /\ lastCall' = Call("calculateRoute", "-", route.transportMode, "measurement_result")
    /\ UNCHANGED <<now, modeVars, geoVars, ocrVars, locVars, kmlVars, archVars, wbVars>>

NextRoute == CalculateRoute

SpecRoute == InitRoute /\ [][NextRoute]_vars

(***************************************************************************)
(* Actions of SpecWorkbook                                                 *)
(* One user's handlers and loops, interleaved at the only place where a    *)
(* loop gives way to them: await this.sleep(...).                          *)
(***************************************************************************)
WorkbookCommit(u, w) ==
    /\ wbStates' = IF w.ref = 0 THEN MapDelete(wbStates, u)
                   ELSE MapSet(wbStates, u, w.ref)
    /\ wbObjs' = [wbObjs EXCEPT ![u] = Collect(w.objs, LoopStates(w.loops) \cup {w.ref})]
    /\ wbLoops' = [wbLoops EXCEPT ![u] = w.loops]
    /\ wbFolders' = [wbFolders EXCEPT ![u] = w.folders]
    /\ wbDone' = [wbDone EXCEPT ![u] = w.done]
    /\ UNCHANGED <<now, modeVars, geoVars, ocrVars, locVars, kmlVars, archVars, routeVars>>

WorkbookCanAlloc(u) == CanAlloc(Collect(wbObjs[u], LoopStates(wbLoops[u])))

HandleWorkbookCommand(u) ==
    /\ WorkbookCanAlloc(u)
    /\ WorkbookCommit(u, handleWorkbookCommand(WorkbookOf(u)))
    /\ lastCall' = Call("handleWorkbookCommand", u, "-", "help")
    /\ UNCHANGED wbAccepted

CreateSheet(u, sheetName) ==
    /\ WorkbookCommit(u, createSheet(WorkbookOf(u), sheetName))
    /\ lastCall' = Call("createSheet", u, sheetName, "sheet_created")
    /\ UNCHANGED wbAccepted

AddPhotoToQueue(u, recent) ==
    LET task == wbAccepted[u] + 1
    IN /\ task <= MaxPhotos
       /\ WorkbookCommit(u, addPhotoToQueue(WorkbookOf(u), task, recent))
       /\ wbAccepted' = IF NoSheet(WorkbookOf(u)) THEN wbAccepted
                        ELSE [wbAccepted EXCEPT ![u] = task]
       /\ lastCall' = Call("addPhotoToQueue", u, ToString(task),
                           addPhotoToQueueReply(WorkbookOf(u), task, recent))

ProcessPhotoQueueResume(u, loop, recent) ==
    /\ loop \in wbLoops[u]
    /\ WorkbookCommit(u, processPhotoQueue_resume(WorkbookOf(u), loop, recent))
    /\ lastCall' = Call("processPhotoQueue", u, ToString(loop.task), "-")
    /\ UNCHANGED wbAccepted

ClearSheets(u) ==
    /\ WorkbookCommit(u, clearSheets(WorkbookOf(u)))
    /\ lastCall' = Call("clearSheets", u, "-", "cleared")
    /\ UNCHANGED wbAccepted

GenerateExcel(u) ==
    /\ WorkbookCommit(u, generateExcel(WorkbookOf(u)))
    /\ lastCall' = Call("generateExcel", u, "-", generateExcelReply(WorkbookOf(u)))
    /\ UNCHANGED wbAccepted

Loops == [state : Refs, task : 1..MaxPhotos]

NextWorkbook ==
    \/ \E u \in WorkbookUsers : HandleWorkbookCommand(u)
    \/ \E u \in WorkbookUsers, n \in SheetNames : CreateSheet(u, n)
    \/ \E u \in WorkbookUsers, r \in BOOLEAN : AddPhotoToQueue(u, r)
    \/ \E u \in WorkbookUsers, l \in Loops, r \in BOOLEAN : ProcessPhotoQueueResume(u, l, r)
    \/ \E u \in WorkbookUsers : ClearSheets(u)
    \/ \E u \in WorkbookUsers : GenerateExcel(u)

SpecWorkbook == Init /\ [][NextWorkbook]_vars

(***************************************************************************)
(* Claims checked under SpecMode                                           *)
(***************************************************************************)
\* A session idle longer than the time-to-live, as the specification words it.
IdleTooLong(u) ==
    MapHas(userModes, u) /\ now - userModes[u].lastActivity > SESSION_TIMEOUT

HasFeatureState(u) == \E m \in FeatureModes : MapHas(userStates[m], u)

\* C1: whenever an operation switches user U from mode A to a different mode B
\* (B may be no-mode), the cleanup of A for U is the effect immediately before the
\* new mode is recorded, no command was routed before it in that operation, and
\* A's feature state for U is gone once the operation has returned.
C1_CleanupBeforeRecord ==
    \A i \in 1..Len(effects) :
        LET e == effects[i]
        IN (e.op = "set" /\ e.prev # Null /\ e.prev # e.mode) =>
              /\ i > 1
              /\ effects[i - 1] = Effect("cleanup", e.user, e.prev, "-")
              /\ \A j \in 1..i : effects[j].op # "route"
              /\ ~MapHas(userStates[e.prev], e.user)

\* C1 witness: a switch between two feature modes has just been made.
C1_Witness ==
    \E i \in 1..Len(effects) :
        /\ effects[i].op = "set"
        /\ effects[i].prev \in FeatureModes
        /\ effects[i].mode \in FeatureModes
        /\ effects[i].prev # effects[i].mode
        /\ MapHas(userStates[effects[i].mode], effects[i].user)

\* C3: every user has exactly one current mode, and it is the mode most recently
\* set for the user (no mode if none was set or the sweep timed the session out).
C3_SingleMode ==
    \A u \in Users :
        /\ Cardinality({m \in BotMode : isUserInMode(u, m)}) = 1
        /\ getUserMode(u) = lastSet[u]

\* C3 witness: after a sweep one user is still in a mode and the other one, who had
\* been switched from one mode to another, is timed out.
C3_Witness ==
    /\ lastCall.op = "cleanupInactiveSessions"
    /\ \E u, v \in Users :
          /\ getUserMode(u) \in FeatureModes
          /\ userModes[u].previousMode \in FeatureModes \ {getUserMode(u)}
          /\ MapHas(userModes, v)
          /\ getUserMode(v) = Null
          /\ userModes[v].previousMode \in FeatureModes

\* C4 (as claimed): setUserMode(U, M) while U's current mode is M triggers no cleanup
\* and leaves U's mode session unchanged.
C4_EnterModeIdempotent ==
    [][\A u \in Users, m \in BotMode :
          (/\ lastCall'.op = "setUserMode"
           /\ lastCall'.user = u
           /\ lastCall'.arg = m
           /\ MapHas(userModes, u)
           /\ userModes[u].currentMode = m)
          => /\ \A i \in 1..Len(effects') : effects'[i].op # "cleanup"
             /\ userModes'[u] = userModes[u]]_vars

C6_ExpiredMeansNoMode ==
    \A u \in Users : IdleTooLong(u) => getUserMode(u) = Null

\* C7: the sweep removes exactly the expired entries: a session idle longer than
\* the time-to-live ends in no-mode with no feature state left, every other
\* session and feature state is kept as it was.
C7_SweepExact ==
    [][lastCall'.op = "cleanupInactiveSessions" =>
          \A u \in Users :
              IF IdleTooLong(u)
              THEN /\ getUserModeIn(userModes', u) = Null
                   /\ \A m \in FeatureModes : ~MapHas(userStates'[m], u)
              ELSE /\ MapHas(userModes', u) = MapHas(userModes, u)
                   /\ MapHas(userModes, u) => userModes'[u] = userModes[u]
                   /\ \A m \in FeatureModes :
                         /\ MapHas(userStates'[m], u) = MapHas(userStates[m], u)
                         /\ MapHas(userStates[m], u) =>
                               userStates'[m][u] = userStates[m][u]]_vars

\* C7 witness: a sweep has just timed out one user's mode and cleaned its feature
\* state while another user's session and feature state are still there.
C7_Witness ==
    /\ lastCall.op = "cleanupInactiveSessions"
    /\ \E i \in 1..Len(effects) : effects[i].op = "cleanup"
    /\ \E u \in Users : getUserMode(u) \in FeatureModes /\ HasFeatureState(u)

(***************************************************************************)
(* Claims checked under SpecGeotags                                        *)
(***************************************************************************)
\* C2 (as claimed): a geotags feature state exists for user U only if U's current
\* mode is the geotags mode, i.e. only for a user who entered it; no handler creates
\* feature state for a user who did not enter the mode.
C2_StateOnlyInMode ==
    \A u \in Users : MapHas(geoStates, u) => u \in geoEntered

\* C8 (as claimed): a feature state that accepted an event less than the
\* time-to-live ago is never removed by the sweep.
C8_TouchedStateSurvivesSweep ==
    [][\A u \in Users :
          (/\ lastCall'.op = "cleanupExpiredStates"
           /\ MapHas(geoStates, u)
           /\ geoTouched[u] >= 0
           /\ now - geoTouched[u] < GEOTAGS_STATE_TIMEOUT)
          => MapHas(geoStates', u)]_vars

\* The sweep has removed the state user u had got on entering the mode (only
\* cleanupExpiredStates deletes an entry).
SweptAway(u) == u \in geoEntered /\ ~MapHas(geoStates, u)

\* C18 (as claimed): after the sweep has removed a user's feature state, a photo or
\* location from that user is treated as "no mode active" and neither creates nor
\* modifies feature state.
C18_EventAfterSweepCreatesNothing ==
    [][\A u \in Users :
          (/\ lastCall'.op \in {"handlePhoto", "handleLocation"}
           /\ lastCall'.user = u
           /\ SweptAway(u))
          => ~MapHas(geoStates', u)]_vars

\* The sticky-location sub-mode of user u is on: a sticky location is set, or
\* the bot is waiting for it.
StickySubMode(gs, u) ==
    /\ MapHas(gs, u)
    /\ (gs[u].alwaysTagLocation # Undefined \/ gs[u].isWaitingForStickyLocation)

\* The standard mode of user u: a state without sticky location that is not
\* waiting for one.
StandardMode(gs, u) ==
    /\ MapHas(gs, u)
    /\ gs[u].alwaysTagLocation = Undefined
    /\ ~gs[u].isWaitingForStickyLocation

\* C31 (as claimed): whenever the sticky-location sub-mode is on (a sticky location
\* is set, or the bot is waiting for one), toggleAlwaysTag turns it off: afterwards
\* the user is in standard mode.
C31_ToggleTurnsOff ==
    [][\A u \in Users :
          (/\ lastCall'.op = "toggleAlwaysTag"
           /\ lastCall'.user = u
           /\ StickySubMode(geoStates, u))
          => StandardMode(geoStates', u)]_vars

\* The replies that report a processed photo.
PhotoProcessedReplies ==
    {"photo_processed", "sticky_set_photo_processed", "sticky_updated_photo_processed"}

\* C32: in standard mode a location event processes the pending photo and clears
\* the slot, and without a pending photo it leaves the state unchanged; a photo
\* event in standard mode only fills the slot; every location event that processes
\* a photo processes the one in the slot and empties the slot, so a received photo
\* is processed at most once and a location event processes at most one photo.
C32_OnePhotoOneLocation ==
    [][\A u \in Users :
          /\ (/\ lastCall'.op = "handleLocation"
              /\ lastCall'.user = u
              /\ StandardMode(geoStates, u))
             => IF geoStates[u].pendingPhotoFileId # Undefined
                THEN /\ lastCall'.reply = "photo_processed"
                     /\ geoStates'[u] = [geoStates[u] EXCEPT !.pendingPhotoFileId = Undefined]
                ELSE /\ lastCall'.reply = "send_photo_first"
                     /\ geoStates' = geoStates
          /\ (/\ lastCall'.op = "handlePhoto"
              /\ lastCall'.user = u
              /\ StandardMode(geoStates, u))
             => /\ lastCall'.reply \notin PhotoProcessedReplies
                /\ geoStates'[u].pendingPhotoFileId = lastCall'.arg
          /\ (/\ lastCall'.op = "handleLocation"
              /\ lastCall'.user = u
              /\ lastCall'.reply \in PhotoProcessedReplies)
             => /\ MapHas(geoStates, u)
                /\ geoStates[u].pendingPhotoFileId # Undefined
                /\ geoStates'[u].pendingPhotoFileId = Undefined]_vars

\* A location event has just processed the pending photo of a user in standard mode.
C32_Witness ==
    /\ lastCall.op = "handleLocation"
    /\ lastCall.reply = "photo_processed"
    /\ StandardMode(geoStates, lastCall.user)
    /\ geoStates[lastCall.user].pendingPhotoFileId = Undefined

\* C37: "waiting for sticky location" and "sticky location set" are never both
\* true, and whenever a sticky location is set there is no pending photo.
C37_StickyExcludesWaitingAndPending ==
    \A u \in Users :
        MapHas(geoStates, u) /\ geoStates[u].alwaysTagLocation # Undefined
        => /\ ~geoStates[u].isWaitingForStickyLocation
           /\ geoStates[u].pendingPhotoFileId = Undefined

\* A sticky location has just been set by a location event that found a photo
\* pending.
C37_Witness ==
    /\ lastCall.op = "handleLocation"
    /\ lastCall.reply = "sticky_set_photo_processed"
    /\ geoStates[lastCall.user].alwaysTagLocation = lastCall.arg

(***************************************************************************)
(* Claims checked under SpecOcr                                            *)
(***************************************************************************)
\* C10 (as claimed): the sweep never removes user U's feature state while a handler
\* for U that has read that state is still in flight.
C10_SweepExcludesHandler ==
    [][\A u \in Users :
          (/\ lastCall'.op = "cleanupExpiredStates"
           /\ MapHas(ocrStates, u)
           /\ ocrStates[u] \in ocrCalls[u])
          => MapHas(ocrStates', u)]_vars

\* C36 (as claimed): at most one image of a user is in processing at any time,
\* also when handleOcrCommand or the sweep runs while an image is in flight.
C36_OneImageInFlight ==
    \A u \in Users : Cardinality(ocrCalls[u]) <= 1

(***************************************************************************)
(* Claims checked under SpecLocation                                       *)
(***************************************************************************)
\* C9 (as claimed): a location measurement idle for more than 10 minutes is ended, so
\* a point that arrives later is not accepted as part of it.
C9_IdleMeasurementEnded ==
    [][\A u \in Users : \A call \in BagToSet(locCalls[u]) :
          (/\ CopiesIn(call, locCalls'[u]) < CopiesIn(call, locCalls[u])
           /\ lastCall'.reply \in {"first_point", "measurement_result"})
          => now - locObjs[u][call.state].timestamp <= LOCATION_TIMEOUT]_vars

\* The call of user u that the step resumes (it is no longer in flight afterwards)
Resumed(u, call) == CopiesIn(call, locCalls'[u]) < CopiesIn(call, locCalls[u])

\* the calls of u in flight on the state object of call, in arrival order
ArrivalsOn(u, call) == SelectSeq(locArrivals[u], LAMBDA c : c.state = call.state)

\* C11 (as claimed): events of one user are processed in arrival order; of two location
\* events in flight on a measurement that awaits its first point, the one that
\* arrived first is the one stored as firstPoint.
C11_ArrivalOrder ==
    [][\A u \in Users : \A call \in BagToSet(locCalls[u]) :
          (Resumed(u, call) /\ lastCall'.reply = "first_point")
          => Head(ArrivalsOn(u, call)) = call]_vars

\* C12 (as claimed): whenever a processLocationForMeasurement call replies "first point
\* received", the measurement state stored for the user holds that point as firstPoint,
\* also when startMeasurement, cancelMeasurement or handleLocationCommand ran while the
\* call was awaiting the address.
C12_UpdateOnCurrentState ==
    [][\A u \in Users : \A call \in BagToSet(locCalls[u]) :
          (Resumed(u, call) /\ lastCall'.reply = "first_point")
          => /\ MapHas(locStates', u)
             /\ locObjs'[u][locStates'[u]].firstPoint.loc = call.loc]_vars

\* the part of user u in the next state
LocOfNext(u) ==
    [ref |-> IF MapHas(locStates', u) THEN locStates'[u] ELSE 0,
     objs |-> locObjs'[u], calls |-> locCalls'[u]]

\* C13 (as claimed): when the second point of a measurement is answered with the
\* measurement result, the workflow is back in the awaiting-first-point step with
\* firstPoint and secondPoint cleared, so that the next point is taken as a first point.
C13_ResultThenAwaitingFirst ==
    [][\A u \in Users : \A call \in BagToSet(locCalls[u]) :
          (Resumed(u, call) /\ lastCall'.reply = "measurement_result")
          => /\ AwaitingFirstPoint(LocOfNext(u))
             /\ locObjs'[u][locStates'[u]].secondPoint = NoPoint]_vars

\* C14 (as claimed): a cancel command issued while the measurement awaits its first
\* point is answered with "nothing to cancel" and leaves the step and the state
\* unchanged.
C14_CancelAwaitingFirst ==
    [][\A u \in Users :
          (/\ lastCall'.op = "cancelMeasurement"
           /\ lastCall'.user = u
           /\ AwaitingFirstPoint(LocOf(u)))
          => /\ lastCall'.reply = "no_active_measurement"
             /\ AwaitingFirstPoint(LocOfNext(u))
             /\ locObjs'[u][locStates'[u]] = locObjs[u][locStates[u]]]_vars

\* C15 (as claimed): a cancel command issued while the measurement awaits its second
\* point is answered with a cancellation confirmation, discards firstPoint and puts
\* the workflow in the awaiting-first-point step, where the next point is taken as a
\* first point.
C15_CancelAwaitingSecond ==
    [][\A u \in Users :
          (/\ lastCall'.op = "cancelMeasurement"
           /\ lastCall'.user = u
           /\ AwaitingSecondPoint(LocOf(u)))
          => /\ lastCall'.reply = "cancelled"
             /\ AwaitingFirstPoint(LocOfNext(u))]_vars

\* C17 (as claimed): when the address resolution of a measurement event fails, no
\* error escapes the handler and the event is accepted as it would be on success: a
\* point sent to a measurement without firstPoint is answered "first point received".
C17_GeocoderFailureAbsorbed ==
    [][\A u \in Users : \A call \in BagToSet(locCalls[u]) :
          Resumed(u, call)
          => /\ lastCall'.reply # "throw"
             /\ locObjs[u][call.state].firstPoint = NoPoint
                   => lastCall'.reply = "first_point"]_vars

(***************************************************************************)
(* Claims checked under SpecLocationAnyInput                               *)
(***************************************************************************)
\* GeoPoint: latitude in [-90, 90] and longitude in [-180, 180]
ValidGeoPoint(l) ==
    /\ Latitude(l) >= -90 /\ Latitude(l) <= 90
    /\ Longitude(l) >= -180 /\ Longitude(l) <= 180

\* C16 (as claimed): a coordinate input out of range is answered with a corrective
\* reply and leaves the step, firstPoint and secondPoint unchanged; it is never stored
\* as a point of the measurement nor handed to the distance calculation.
C16_InvalidPointRejected ==
    [][\A u \in Users : \A call \in BagToSet(locCalls[u]) :
          (Resumed(u, call) /\ ~ValidGeoPoint(call.loc))
          => /\ lastCall'.reply \notin {"first_point", "measurement_result"}
             /\ \A r \in DOMAIN locObjs'[u] :
                   r \in DOMAIN locObjs[u] => locObjs'[u][r] = locObjs[u][r]]_vars

(***************************************************************************)
(* Claims checked under SpecKml                                            *)
(***************************************************************************)
\* every point the KML data of user u holds
KmlStoredPoints(u) ==
    LET userData == kmlData[u]
    IN {userData.placemarks[i].loc : i \in DOMAIN userData.placemarks}
       \cup {userData.activeLine.points[i] : i \in DOMAIN userData.activeLine.points}
       \cup UNION {{userData.lines[j].coordinates[i] :
                       i \in DOMAIN userData.lines[j].coordinates} :
                   j \in DOMAIN userData.lines}

\* C20 (as claimed): every point stored by the KML workflow is in range, whether it was
\* added by addPoint or by handleLocation.
C20_StoredPointsInRange ==
    \A u \in DOMAIN kmlData : \A l \in KmlStoredPoints(u) : ValidGeoPoint(l)

\* the user's KML data as a handler finds it, and as the step leaves it
KmlBefore(u) == getUserKmlData(KmlOf, u).data[u]
KmlAfter(u) == kmlData'[u]

\* C27 (as claimed): after handleKmlCommand the user's workflow has no placemark, no
\* saved line, no active line, no persistent point name and no pending name for the
\* next point.
C27_EntryResetsEverything ==
    \A u \in KmlUsers :
        lastCall.op = "handleKmlCommand" /\ lastCall.user = u /\ lastCall.reply = "help"
            => /\ kmlData[u] = [placemarks |-> <<>>, lines |-> <<>>,
                                activeLine |-> NoLine, persistentPointName |-> Null]
               /\ ~MapHas(kmlNextNames, u)

\* C28: endLine on an active line with fewer than 2 points answers that the line has
\* too few points and leaves the active line and the saved lines as they are; with 2
\* or more points it appends the line to the saved lines and clears the active line.
\* Every saved line has at least 2 coordinates.
C28_EndLineNeedsTwoPoints ==
    [][\A u \in KmlUsers :
          /\ (lastCall'.op = "endLine" /\ lastCall'.user = u
                 /\ KmlBefore(u).activeLine # NoLine)
                => IF Len(KmlBefore(u).activeLine.points) < 2
                   THEN /\ lastCall'.reply = "too_few_points"
                        /\ KmlAfter(u) = KmlBefore(u)
                   ELSE /\ lastCall'.reply = "line_saved"
                        /\ KmlAfter(u).lines
                               = Append(KmlBefore(u).lines,
                                        [name |-> KmlBefore(u).activeLine.name,
                                         coordinates |-> KmlBefore(u).activeLine.points])
                        /\ KmlAfter(u).activeLine = NoLine
          /\ MapHas(kmlData', u)
                => \A j \in DOMAIN KmlAfter(u).lines :
                       Len(KmlAfter(u).lines[j].coordinates) >= 2]_vars

\* a line of two points was saved, after endLine had refused it with one point
C28_Witness ==
    /\ lastCall.op = "endLine" /\ lastCall.reply = "line_saved"
    /\ MapHas(kmlData, "u1")
    /\ Len(kmlData["u1"].lines) = 1
    /\ Len(kmlData["u1"].lines[1].coordinates) = 2

\* the step is an accepted point of user u
PointAccepted(u) ==
    /\ lastCall'.op \in {"addPoint", "handleLocation"} /\ lastCall'.user = u
    /\ lastCall'.reply # "invalid_coordinates"

\* C29: while a line is active an accepted point is appended to the active line and
\* nothing else changes (placemarks, saved lines, pending and persistent name, the
\* line's name); while no line is active an accepted point becomes exactly one new
\* placemark and the saved lines do not change.  startLine while a line is active
\* is refused and leaves the active line as it is.
C29_PointGoesToActiveLine ==
    [][\A u \in KmlUsers :
          /\ PointAccepted(u)
                => IF KmlBefore(u).activeLine # NoLine
                   THEN /\ KmlAfter(u) = [KmlBefore(u) EXCEPT
                                             !.activeLine.points = Append(@, lastCall'.arg)]
                        /\ kmlNextNames' = kmlNextNames
                   ELSE /\ Len(KmlAfter(u).placemarks) = Len(KmlBefore(u).placemarks) + 1
                        /\ SubSeq(KmlAfter(u).placemarks, 1, Len(KmlBefore(u).placemarks))
                               = KmlBefore(u).placemarks
                        /\ KmlAfter(u).placemarks[Len(KmlAfter(u).placemarks)].loc
                               = lastCall'.arg
                        /\ KmlAfter(u).lines = KmlBefore(u).lines
                        /\ KmlAfter(u).activeLine = NoLine
          /\ (lastCall'.op = "startLine" /\ lastCall'.user = u
                 /\ KmlBefore(u).activeLine # NoLine)
                => /\ lastCall'.reply = "line_already_active"
                   /\ KmlAfter(u) = KmlBefore(u)]_vars

\* a point was added to the active line while a placemark, a pending and a persistent
\* name existed
C29_Witness ==
    /\ lastCall.op = "addPoint" /\ lastCall.reply = "added_to_line"
    /\ MapHas(kmlData, "u1") /\ MapHas(kmlNextNames, "u1")
    /\ kmlData["u1"].activeLine.points = <<"l1">>
    /\ Len(kmlData["u1"].placemarks) = 1
    /\ kmlData["u1"].persistentPointName = "P"

\* the name of the placemark the step has appended
NewPlacemarkName(u) == KmlAfter(u).placemarks[Len(KmlAfter(u).placemarks)].name

\* the step has created a placemark for user u with the explicit name n (Undefined:
\* none)
PlacemarkCreated(u, n) ==
    /\ KmlBefore(u).activeLine = NoLine
    /\ \/ \E l \in KmlLocations : AddPoint(u, l, n) /\ ~CoordinatesInvalid(l)
       \/ n = Undefined /\ \E l \in KmlLocations : KmlHandleLocation(u, l)

\* C30: a new placemark takes the explicit name if there is one (the pending and the
\* persistent name stay); otherwise the pending name of setNextPointName, which is
\* then removed; otherwise the persistent name, which stays; otherwise a default
\* name.
C30_NextNameOnce ==
    [][\A u \in KmlUsers, n \in ExplicitNames :
          PlacemarkCreated(u, n)
              => /\ KmlAfter(u).persistentPointName = KmlBefore(u).persistentPointName
                 /\ IF Truthy(n)
                    THEN NewPlacemarkName(u) = n /\ kmlNextNames' = kmlNextNames
                    ELSE IF MapHas(kmlNextNames, u)
                    THEN /\ NewPlacemarkName(u) = kmlNextNames[u]
                         /\ ~MapHas(kmlNextNames', u)
                    ELSE /\ kmlNextNames' = kmlNextNames
                         /\ IF KmlBefore(u).persistentPointName # Null
                            THEN NewPlacemarkName(u) = KmlBefore(u).persistentPointName
                            ELSE NewPlacemarkName(u)
                                     \in {"Titik " \o ToString(Len(KmlAfter(u).placemarks)),
                                          "Titik Terlampir "
                                              \o ToString(Len(KmlAfter(u).placemarks))}]_vars

\* the pending name went to one placemark and the persistent name to the next
C30_Witness ==
    /\ MapHas(kmlData, "u1") /\ ~MapHas(kmlNextNames, "u1")
    /\ Len(kmlData["u1"].placemarks) = 2
    /\ kmlData["u1"].placemarks[1].name = "N"
    /\ kmlData["u1"].placemarks[2].name = "P"

(***************************************************************************)
(* Claims checked under SpecWorkflows                                      *)
(***************************************************************************)
LocationOps == {"handleLocationCommand", "startMeasurement", "cancelMeasurement",
                "processLocationForMeasurement"}
KmlOps == {"handleKmlCommand", "handleLocation", "clearData"}

\* what the KML feature holds for user u, in the given Maps
KmlPart(data, next, u) ==
    [data |-> IF MapHas(data, u) THEN <<data[u]>> ELSE <<>>,
     next |-> IF MapHas(next, u) THEN <<next[u]>> ELSE <<>>]

LocUntouched(u) == LocOfNext(u) = LocOf(u)
KmlUntouched(u) == KmlPart(kmlData', kmlNextNames', u) = KmlPart(kmlData, kmlNextNames, u)

\* C19: a handler run for user u in one feature leaves the feature states of every
\* other user, and the state of u in the other feature, unchanged, under any
\* interleaving of the handlers of the two users.
C19_NoInterference ==
    [][\A u \in Users :
          lastCall'.user = u
          => /\ \A v \in Users \ {u} : LocUntouched(v) /\ KmlUntouched(v)
             /\ lastCall'.op \in LocationOps => KmlUntouched(u)
             /\ lastCall'.op \in KmlOps => LocUntouched(u)]_vars

\* u1's measurement state is reset by a cancel while u2 has a measurement with its
\* first point and a second point in flight, and both users hold a KML placemark.
C19_Witness ==
    /\ lastCall.op = "cancelMeasurement" /\ lastCall.user = "u1"
    /\ lastCall.reply = "cancelled"
    /\ AwaitingSecondPoint(LocOf("u2"))
    /\ ~NoCallInFlight("u2")
    /\ \A u \in Users : MapHas(kmlData, u) /\ Len(kmlData[u].placemarks) = 1

(***************************************************************************)
(* Claims checked under SpecArchive                                        *)
(***************************************************************************)
\* the precondition of processFiles does not hold
CannotProcess(a) ==
    \/ NoSubMode(a)
    \/ a.objs[a.ref].mode = "search"
    \/ Len(a.objs[a.ref].files) = 0

CorrectiveReplies ==
    {"select_mode_first", "search_uses_auto_extract", "no_files",
     "search_and_send_archive_first", "nothing_selected"}

\* the call of op made in this step by user u
Invoked(op, u) == lastCall'.op = op /\ lastCall'.user = u

\* C21: an archive operation invoked while its precondition does not hold answers
\* with a corrective reply and changes nothing of the archive state: addFile with
\* no sub-mode, processFiles with no sub-mode, in search sub-mode or with no queued
\* file, searchFiles outside search sub-mode or before an archive was received,
\* sendSelectedFiles without search results.
C21_RejectedLeavesState ==
    [][\A u \in ArchiveUsers :
          (\/ Invoked("addFile", u) /\ NoSubMode(ArchiveOf(u))
           \/ Invoked("processFiles", u) /\ CannotProcess(ArchiveOf(u))
           \/ Invoked("searchFiles", u) /\ CannotSearch(ArchiveOf(u))
           \/ Invoked("sendSelectedFiles", u) /\ NothingSelected(ArchiveOf(u)))
          => /\ lastCall'.reply \in CorrectiveReplies
             /\ UNCHANGED archVars]_vars

\* a second sendSelectedFiles after the results were sent was rejected
C21_Witness ==
    /\ lastCall.op = "sendSelectedFiles" /\ lastCall.reply = "nothing_selected"
    /\ MapHas(archStates, "u1")
    /\ archObjs["u1"][archStates["u1"]].searchResults = <<>>
    /\ archObjs["u1"][archStates["u1"]].searchPattern # Undefined

\* C38 (as claimed): no batch is archived twice: a batch of queued files (one
\* state object) is never the subject of two ZIP creations, also when processFiles
\* is issued again while a ZIP creation is in flight; each ZIP creation in flight
\* adds 1 to zipCount when it completes.
C38_OneZipPerBatch ==
    \A u \in ArchiveUsers :
        \A call \in BagToSet(archCalls[u]) :
            call.kind = "zip" => CopiesIn(call, archCalls[u]) = 1

(***************************************************************************)
(* Claims checked under SpecRoute                                          *)
(***************************************************************************)
\* calculateRoute has returned for the points p1 and p2
Measured(p1, p2) == route.returned /\ route.firstPoint = p1 /\ route.secondPoint = p2

\* C22: the distance of a point to itself is 0 and the estimated duration is 0 for
\* every transport mode; the measurement reports 0 meters and 0 seconds.
C22_SamePointZero ==
    \A p \in GeoPoints :
        Measured(p, p)
            => /\ route.distance = NumFromInt[0]
               /\ route.estimatedTime = NumFromInt[0]
               /\ route.formattedDistance = [value |-> 0, decimals |-> <<>>, unit |-> "meter"]
               /\ route.formattedDuration = <<<<0, "detik">>>>

C22_Witness == Measured("g2", "g2") /\ route.transportMode = "car"

\* C23: the distance from p1 to p2 equals the distance from p2 to p1.
C23_DistanceSymmetric ==
    route.returned
        => route.distance = calculateDistance(Degrees[LatitudeOf(route.secondPoint)],
                                              Degrees[LongitudeOf(route.secondPoint)],
                                              Degrees[LatitudeOf(route.firstPoint)],
                                              Degrees[LongitudeOf(route.firstPoint)])

C23_Witness == Measured("g4", "g1") /\ route.distance # NumFromInt[0]

\* x and y differ by less than 10^(-12)
Close(x, y) == Len(NumSub[x, y].mag) <= 1

\* C24: the estimated duration in seconds is distance * 3.6 / speed with the speed
\* 5, 40 or 50 km/h of the transport mode; it is determined by the distance and the
\* transport mode, and the distance is the same for every transport mode.
C24_DurationFromSpeed ==
    route.returned
        => /\ Close(NumMulInt[route.estimatedTime,
                              CASE route.transportMode = "foot" -> 5
                                [] route.transportMode = "motorcycle" -> 40
                                [] route.transportMode = "car" -> 50],
                    NumDivInt[NumMulInt[route.distance, 36], 10])
           /\ route.estimatedTime = estimateTime(route.distance, route.transportMode)
           /\ \A m \in TransportModes :
                 calculateRoute(route.firstPoint, route.secondPoint, m).distance
                     = route.distance

C24_Witness ==
    Measured("g1", "g2") /\ route.transportMode = "foot" /\ route.distance # NumFromInt[0]

\* C25: a distance below 1000 m is reported in whole meters and any other in
\* kilometers with two decimals; a duration s below 60 is reported as a whole number
\* of seconds below 60, one with 60 <= s < 3600 as floor(s / 60) minutes, any other as
\* floor(s / 3600) hours and floor((s mod 3600) / 60) minutes.
C25_FormatByThreshold ==
    route.returned
        => LET d == route.distance
               s == route.estimatedTime
           IN /\ IF NumLt[d, NumFromInt[1000]]
                 THEN /\ route.formattedDistance.unit = "meter"
                      /\ route.formattedDistance.decimals = <<>>
                      /\ route.formattedDistance.value \in {NumFloor[d], NumFloor[d] + 1}
                 ELSE /\ route.formattedDistance.unit = "kilometer"
                      /\ Len(route.formattedDistance.decimals) = 2
              /\ IF NumLt[s, NumFromInt[60]]
                 THEN /\ Len(route.formattedDuration) = 1
                      /\ route.formattedDuration[1][2] = "detik"
                      /\ route.formattedDuration[1][1] < 60
                 ELSE IF NumLt[s, NumFromInt[3600]]
                 THEN route.formattedDuration = <<<<NumFloor[s] \div 60, "menit">>>>
                 ELSE route.formattedDuration
                          = <<<<NumFloor[s] \div 3600, "jam">>,
                              <<(NumFloor[s] % 3600) \div 60, "menit">>>>

\* the measurement example: from (-7.257056, 112.648000) to (-7.6382862, 112.7372882)
\* by car
ExampleMeasured == Measured("g1", "g2") /\ route.transportMode = "car"

\* C26: the example measurement computes the haversine distance, 43518.98 m to
\* within 1 m, reported as 43.52 kilometers, and estimates 52 minutes.
C26_ExampleMeasurement ==
    ExampleMeasured
        => /\ NumLt[Num[FALSE, NumSub[route.distance,
                                      NumDivInt[NumFromInt[4351898], 100]].mag],
                    NumFromInt[1]]
           /\ route.formattedDistance
                  = [value |-> 43, decimals |-> <<5, 2>>, unit |-> "kilometer"]
           /\ route.formattedDuration = <<<<52, "menit">>>>

C26_Witness == ExampleMeasured /\ route.formattedDistance.unit = "kilometer"

\* C26 as stated: the example measurement computes about 47.6 km and roughly 57
\* minutes.
C26_AsStated ==
    ExampleMeasured
        => /\ route.formattedDistance.value = 47
           /\ route.formattedDistance.decimals[1] \in {5, 6}
           /\ route.formattedDuration[1][2] = "menit"
           /\ route.formattedDuration[1][1] \in 55..59
(***************************************************************************)
(* Claims checked under SpecWorkbook                                       *)
(***************************************************************************)
\* A photo of user u that addPhotoToQueue accepted is still queued, or a loop has
\* taken it off the queue and has not given it to processPhotoTask yet.
PhotoPending(u) ==
    \/ \E r \in DOMAIN wbObjs[u] : wbObjs[u][r].processingQueue # <<>>
    \/ wbLoops[u] # {}

\* C33 (as claimed): whenever an accepted photo is still queued or is being
\* processed by processPhotoQueue, generateExcel returns the "photos still in
\* queue" failure and produces no file.
C33_NoExcelWhilePending ==
    [][\A u \in WorkbookUsers :
          (/\ lastCall'.op = "generateExcel"
           /\ lastCall'.user = u
           /\ PhotoPending(u))
          => lastCall'.reply = "photos_still_in_queue"]_vars

\* C34 (as claimed): the accepted photos are processed in the order accepted:
\* processPhotoTask never gets a photo after one that was accepted later.
C34_ProcessedInOrderAccepted ==
    \A u \in WorkbookUsers :
        \A i \in DOMAIN wbDone[u], j \in DOMAIN wbDone[u] :
            i < j => wbDone[u][i].task < wbDone[u][j].task

\* C35 (as claimed): while a processing loop of user u is running, addPhotoToQueue
\* never starts a second one: it neither suspends a new loop nor processes a photo.
C35_SingleLoop ==
    [][\A u \in WorkbookUsers :
          (/\ lastCall'.op = "addPhotoToQueue"
           /\ lastCall'.user = u
           /\ wbLoops[u] # {})
          => /\ wbLoops'[u] = wbLoops[u]
             /\ wbDone'[u] = wbDone[u]]_vars

====
